---- MODULE Spec2Model ----
(***************************************************************************)
(* State-machine model of the LG-Urban chat backend.                        *)
(*                                                                         *)
(* Part I  : the streaming orchestrator, POST /threads/{id}/messages        *)
(*           (backend/app/api.py, post_message_stream and its SSE body     *)
(*           event_stream), together with the agent graph it drives        *)
(*           (backend/graph/graph.py) and the token_count reducer          *)
(*           (backend/graph/state.py).                                     *)
(*                                                                         *)
(* Python values are represented as follows:                               *)
(*   - an Optional value is a sequence of length <= 1 (<<>> is None),      *)
(*     except for string-typed locals, where the string "None" stands for  *)
(*     Python's None;                                                      *)
(*   - a Message row is a record; its primary key `id` (a uuid in the      *)
(*     code) is the tuple naming the insert that created it;               *)
(*   - an SSE frame is the record that the code passes to json.dumps.      *)
(***************************************************************************)
EXTENDS Integers, Sequences, FiniteSets, TLC

(***************************************************************************)
(* Bounds of the model and program constants                               *)
(***************************************************************************)

\* most tool calls the models request in one behaviour
MaxTools == 1

\* most content-bearing chunks the agent's model streams in one behaviour
MaxChunks == 1

\* most faults of the environment in one behaviour: a model call or
\* make_graph raising, title generation failing, a client going away
MaxFaults == 1

\* supersteps a graph run may take before the runtime aborts it
RecursionLimit == 3

\* most files the sandbox writes to the staging folders in one behaviour
MaxStaged == 2

\* backend/config.py: CONTEXT_WINDOW, default 30k
CONTEXT_WINDOW == 30000

\* artifacts/storage.py: MAX_ARTIFACT_SIZE_MB, default 50
MAX_ARTIFACT_SIZE_MB == 50

\* config.py: download tokens live for 24 hours
ARTIFACTS_TOKEN_TTL_SECONDS == 86400

\* tokens issued in a behaviour
MaxTokens == 2

\* containers created in a behaviour
MaxContainers == 2

\* exec calls in a behaviour
MaxExecs == 3

\* updates applied to one token_count channel
MaxUpdates == 4

\* HTTP requests, named in their order of arrival
Reqs == {"r1", "r2"}

ArrivedBefore(r) == IF r = "r2" THEN {"r1"} ELSE {}

\* no request (an unheld lock)
NoReq == "none"

\* Thread rows that exist: t1 is a conversation with a history and any
\* Config row, t2 a thread that was just created; MissingThread has no row
ThreadIds == {"t1", "t2"}

MissingThread == "tx"

\* threads a request may address: requests to different threads commute, so
\* the first request is taken to be the one that addresses t1
Addressable(r) == IF r = "r1" THEN {"t1", MissingThread} ELSE ThreadIds \cup {MissingThread}

\* caller-supplied idempotency keys
MsgIds == {"m1", "m2"}

\* ids are named in the order of their first use
NamedBefore(m) == IF m = "m2" THEN {"m1"} ELSE {}

Roles == {"user", "assistant"}

\* usage_metadata of the model's last message: absent, or its input_tokens
UsageMetadata == {<<1>>}

\* messages two earlier turns (h1, h2) left in the conversation state
EarlierMessages ==
    <<<<"h1", "user">>, <<"h1", "assistant">>, <<"h2", "user">>, <<"h2", "assistant">>>>

\* the thread with a history: its Config row (context_window None / 0 / n),
\* and the token_count and messages earlier runs left in the checkpointer
Histories ==
    {[cfg |-> <<[context_window |-> <<>>]>>, token_count |-> 0, messages |-> <<>>],
     [cfg |-> <<[context_window |-> <<>>]>>, token_count |-> 26999,
      messages |-> EarlierMessages],
     [cfg |-> <<[context_window |-> <<0>>]>>, token_count |-> 0, messages |-> <<>>],
     [cfg |-> <<[context_window |-> <<40000>>]>>, token_count |-> 26999,
      messages |-> EarlierMessages]}

\* final text of a model call
Contents == {"", "Hi"}

\* tools of the agent: code_sandbox returns a Command (api.py "Case 1"),
\* the others a ToolMessage (api.py "Case 2")
ToolNames == {"code_sandbox", "internet_search"}

\* outputs of the summarizer model: the text of its last message, which
\* the node stores as it is
SummaryTexts == {"", "summary"}

\* calls of ingest_files, named in the order in which they start
Ingests == {"i1", "i2"}

StartedBefore(i) == IF i = "i2" THEN {"i1"} ELSE {}

\* host paths of files in the staging folders
Paths == {"p1", "p2"}

\* what a path holds when there is no file
NoFile == "none"

\* get_max_artifact_size: the cap in bytes
get_max_artifact_size == MAX_ARTIFACT_SIZE_MB * 1024 * 1024

\* file contents: a small file, one of exactly the cap and one a byte larger
Bytes == {"small", "atcap", "overcap"}

\* src.stat().st_size of a file holding b
st_size(b) ==
    CASE b = "small" -> 100
      [] b = "atcap" -> get_max_artifact_size
      [] b = "overcap" -> get_max_artifact_size + 1

\* file_sha256: the fingerprint of the contents (distinct contents have
\* distinct fingerprints)
file_sha256(b) == "sha256:" \o b

Shas == {file_sha256(b) : b \in Bytes}

\* new_host_files of a call: the new files of one staging folder
Batches == {<<"p1">>, <<"p2">>, <<"p1", "p2">>}

\* a call of ingest_files that has not been made
NoIngest ==
    [pc |-> "idle", thread_id |-> "none", new_paths |-> <<>>, idx |-> 0,
     added |-> {}, descriptors |-> <<>>, error |-> "None"]

\* session keys (= thread ids) the session manager is called with
SessionKeys == {"k1"}

\* concurrent callers of the session manager
Callers == {"c1", "c2"}

NoCaller == "none"

\* files the sandboxed code may write into /session/artifacts
FileNames == {"f1", "f2"}

\* code handed to exec: an assignment, a print of the assigned variable,
\* a sleep longer than the timeout, and code that writes files
Codes == {"x = 42", "print(x)", "sleep", "write f1", "write f1 f2"}

\* the files a piece of code writes
Writes(code) ==
    CASE code = "write f1" -> {"f1"}
      [] code = "write f1 f2" -> {"f1", "f2"}
      [] OTHER -> {}

\* a call that has not been made
NoCall ==
    [pc |-> "idle", op |-> "none", key |-> "none", code |-> "none", seq |-> 0,
     before |-> {}, outcome |-> "none", returned |-> <<>>, result |-> <<>>]

\* DELETE /threads/{thread_id} requests
Deleters == {"d1", "d2"}

\* the requests are named in their order of arrival
DeletedBefore(d) == IF d = "d2" THEN {"d1"} ELSE {}

\* a DELETE request that has not been made
NoDelete == [pc |-> "idle", thread_id |-> "none", status |-> "None"]

\* no request has reached the download endpoints
NoDownload ==
    [pc |-> "idle", endpoint |-> "none", artifact_id |-> "none", token |-> <<>>,
     at |-> 0, response |-> <<>>]

VARIABLES
    checkpointer_cm,    \* backend.main._checkpointer_cm is set
    threads,            \* ids of the Thread rows
    title,              \* Thread.title per thread
    cfg,                \* Config row per thread
    message_rows,       \* the Message table
    locks,              \* per-thread lock table: holder of each lock
    ckpt,               \* checkpointer: conversation state per thread
    pc,                 \* position of each request's handler / SSE body
    payload,            \* PostMessageIn of each request, with its thread
    frames,             \* SSE frames yielded by each request's event_stream
    tool_calls,         \* event_stream local tool_calls
    assistant_content,  \* event_stream local assistant_content
    a_msg_id,           \* event_stream local a_msg_id
    run,                \* graph run of each request: supersteps, running tool
    used,               \* tool calls, chunks, faults and staged files so far
    staging,            \* host files of the sessions' staging folders, by path
    blobs,              \* blob store: what is on disk at the path of each sha256
    blob_writes,        \* times the blob at each sha256 was opened for writing
    artifact_rows,      \* the committed rows of the Artifact table
    ing,                \* the calls of ingest_files: position and locals
    now,                \* time.time() in whole seconds
    tokens,             \* the download tokens issued so far
    dl,                 \* the download request: position, inputs and response
    deletes,            \* the DELETE /threads requests: position and thread
    sessions,           \* SessionManager.sessions: container of each session key
    containers,         \* the containers that exist, with their interpreter state
    sm_lock,            \* holder of the mutex that guards start and stop
    calls,              \* the calls of start, stop and exec: position and locals
    session_artifacts,  \* files in /session/artifacts of each session key
    handed,             \* times each file was handed to ingest, times it was new
    sess_used,          \* containers created and execs made so far
    reduced,            \* a token_count channel and the updates applied to it
    context             \* backend.graph.context: the thread id set for the tools

vars == <<checkpointer_cm, threads, title, cfg, message_rows, locks, ckpt, pc,
          payload, frames, tool_calls, assistant_content, a_msg_id, run, used,
          staging, blobs, blob_writes, artifact_rows, ing, now, tokens, dl, deletes,
          sessions, containers, sm_lock, calls, session_artifacts, handed, sess_used,
          reduced, context>>

\* the artifact store
artVars == <<staging, blobs, blob_writes, artifact_rows, ing>>

\* the streaming orchestrator, but for the budgets in `used`
streamVars == <<checkpointer_cm, threads, title, cfg, message_rows, locks, ckpt, pc,
                payload, frames, tool_calls, assistant_content, a_msg_id, run>>

\* the download endpoints and the token service
dlVars == <<now, tokens, dl>>

\* the session manager
sessVars == <<sessions, containers, sm_lock, calls, session_artifacts, handed, sess_used>>

\* what no step of the streaming orchestrator touches
outsideStream == <<artVars, dlVars, deletes, sessVars, reduced, context>>

\* what no step of the artifact registry touches
outsideStore == <<streamVars, dlVars, deletes, sessVars, reduced, context>>

\* what no step of the download endpoints and the token service touches
outsideDownload == <<streamVars, used, artVars, deletes, sessVars, reduced, context>>

\* what no step of the session manager touches
outsideSessions == <<streamVars, used, artVars, dlVars, deletes, reduced, context>>

\* what no update of the token_count channel touches
outsideChannel == <<streamVars, used, artVars, dlVars, deletes, sessVars, context>>

\* the session manager before its first call
NoSessions ==
    /\ sessions = [k \in SessionKeys |-> <<>>]
    /\ containers = {}
    /\ sm_lock = NoCaller
    /\ calls = [c \in Callers |-> NoCall]
    /\ session_artifacts = [k \in SessionKeys |-> {}]
    /\ handed = [f \in FileNames |-> [ingest |-> 0, new |-> 0]]
    /\ sess_used = [containers |-> 0, execs |-> 0]

dbVars == <<threads, title, cfg, message_rows>>

localVars == <<tool_calls, assistant_content, a_msg_id>>


(***************************************************************************)
(* Python values                                                           *)
(***************************************************************************)

\* truth value of an Optional[str] (None and "" are falsy)
Truthy(s) == s \notin {"None", ""}

\* pc values of a request whose SSE body is open and has not ended
BeforeLockPcs == {"stream_open", "lock"}

\* pc values inside `async with lock:` (api.py 574-760)
InLockPcs == {"agent_node", "summarize", "summ_stream", "summ_return", "model",
              "tool_start", "tool_end", "agent_return", "persist", "title",
              "done_frame"}

StreamPcs == BeforeLockPcs \cup InLockPcs

\* pc values where the agent graph is being driven (api.py 586-689)
GraphPcs == {"agent_node", "summarize", "summ_stream", "summ_return", "model",
             "tool_start", "tool_end", "agent_return"}

\* the event_stream local `config` is assigned at api.py 582, inside the lock
ConfigBound(r) == pc[r] \in InLockPcs

(***************************************************************************)
(* backend/graph/state.py and the threshold test of agent_node             *)
(***************************************************************************)

\* mutant of update_token_count: the sentinel is added like any other update
update_token_count_NoSentinel(token_count, token_used) ==
    LET c == IF token_count = <<>> THEN 0 ELSE token_count[1]
        u == IF token_used = <<>> THEN 0 ELSE token_used[1]
    IN  c + u

\* update_token_count(token_count, token_used); arguments are Optional[int]
update_token_count(token_count, token_used) ==
    LET c == IF token_count = <<>> THEN 0 ELSE token_count[1]
        u == IF token_used = <<>> THEN 0 ELSE token_used[1]
    IN  IF u = -1 THEN 0 ELSE c + u

\* graph.py 161: context_window if context_window is not None else CONTEXT_WINDOW
effective_context_window(context_window) ==
    IF context_window # <<>> THEN context_window[1] ELSE CONTEXT_WINDOW

\* mutant of OverThreshold: the comparison is strict
OverThreshold_Strict(current_tokens, context_window) ==
    10 * current_tokens > 9 * effective_context_window(context_window)

\* graph.py 162-163: current_tokens >= effective_context_window * 0.9
\* (the product is exact in binary floating point for the windows used here)
OverThreshold(current_tokens, context_window) ==
    10 * current_tokens >= 9 * effective_context_window(context_window)

\* api.py 552: cfg.context_window if cfg else None
CfgContextWindow(t) == IF cfg[t] # <<>> THEN cfg[t][1].context_window ELSE <<>>

\* api.py 566 and 612: cfg.context_window if cfg and cfg.context_window else DEFAULT
max_tokens(t) ==
    IF cfg[t] # <<>> /\ cfg[t][1].context_window # <<>> /\ cfg[t][1].context_window[1] # 0
    THEN cfg[t][1].context_window[1]
    ELSE CONTEXT_WINDOW

\* graph.py 183-184: meta["input_tokens"] if meta else 0
input_tokens(meta) == IF meta # <<>> THEN meta[1] ELSE 0

(***************************************************************************)
(* SSE frames (the dict each `yield` serialises)                           *)
(***************************************************************************)

ContextUpdateFrame(tokens_used, max) ==
    [type |-> "context_update", tokens_used |-> tokens_used, max_tokens |-> max]

TokenFrame(c) == [type |-> "token", content |-> c]

SummarizingFrame(st) == [type |-> "summarizing", status |-> st]

ToolStartFrame(n) == [type |-> "tool_start", name |-> n]

ToolEndFrame(n) == [type |-> "tool_end", name |-> n]

TitleUpdatedFrame(tt) == [type |-> "title_updated", title |-> tt]

DoneFrame(mid) == [type |-> "done", message_id |-> mid]

ErrorFrame(e) == [type |-> "error", error |-> e]

\* api.py 544: {'error': 'Checkpointer not initialized'}
CheckpointerFrame == [error |-> "Checkpointer not initialized"]

(***************************************************************************)
(* The Message table                                                       *)
(***************************************************************************)

\* f"assistant:{payload.message_id}"
AssistantMessageId(m) == "assistant:" \o m

\* f"tool:{payload.message_id}:{idx}"
ToolMessageId(m, idx) == "tool:" \o m \o ":" \o ToString(idx)

\* api.py 521-526
UserRow(r, t, m) ==
    [id |-> <<r, "user", 0>>, thread_id |-> t, message_id |-> m, role |-> "user",
     content |-> "text", tool_name |-> "None", meta |-> "None"]

\* api.py 697-708; idx counts from 0 as enumerate does
ToolRow(r, i) ==
    LET tool_call == tool_calls[r][i]
        tool_call_id == tool_call.tool_call_id
    IN  [id |-> <<r, "tool", i - 1>>, thread_id |-> payload[r].thread_id,
         message_id |-> ToolMessageId(payload[r].message_id, i - 1),
         role |-> "tool", content |-> "None", tool_name |-> tool_call.name,
         meta |-> IF Truthy(tool_call_id) THEN tool_call_id ELSE "None"]

\* api.py 713-718
AssistantRow(r) ==
    [id |-> <<r, "assistant", 0>>, thread_id |-> payload[r].thread_id,
     message_id |-> AssistantMessageId(payload[r].message_id),
     role |-> "assistant", content |-> assistant_content[r],
     tool_name |-> "None", meta |-> "None"]

\* unique constraint on Message (thread_id, message_id): a commit of `new`
\* on top of `rows` raises IntegrityError
UniqueViolation(rows, new) ==
    \/ \E n \in new, x \in rows :
          n.thread_id = x.thread_id /\ n.message_id = x.message_id
    \/ \E n1 \in new, n2 \in new :
          n1 # n2 /\ n1.thread_id = n2.thread_id /\ n1.message_id = n2.message_id

\* backend.main.get_thread_lock: the lock of a thread is keyed by str(thread_id)
get_thread_lock(t) == t

(***************************************************************************)
(* Initial state                                                           *)
(***************************************************************************)

NoPayload == [thread_id |-> "none", message_id |-> "none", role |-> "none"]

NoRun == [steps |-> 0, tool |-> "None", session_key |-> "None"]

\* backend/graph/context.py before any request has set it
NoContext == [thread_id |-> "None"]

Init ==
    /\ checkpointer_cm = FALSE
    /\ threads = ThreadIds
    /\ title = [t \in ThreadIds |-> "New chat"]
    /\ message_rows = {}
    /\ locks = [t \in ThreadIds |-> NoReq]
    /\ \E h \in Histories :
          /\ cfg = [t \in ThreadIds |-> IF t = "t1" THEN h.cfg ELSE <<>>]
          /\ ckpt = [t \in ThreadIds |->
                       [token_count |-> IF t = "t1" THEN h.token_count ELSE 0,
                        summary |-> "",
                        messages |-> IF t = "t1" THEN h.messages ELSE <<>>]]
    /\ pc = [r \in Reqs |-> "idle"]
    /\ payload = [r \in Reqs |-> NoPayload]
    /\ frames = [r \in Reqs |-> <<>>]
    /\ tool_calls = [r \in Reqs |-> <<>>]
    /\ assistant_content = [r \in Reqs |-> "None"]
    /\ a_msg_id = [r \in Reqs |-> <<>>]
    /\ run = [r \in Reqs |-> NoRun]
    /\ used = [tools |-> 0, chunks |-> 0, faults |-> 0, staged |-> 0]
    /\ staging = [p \in Paths |-> NoFile]
    /\ blobs = [s \in Shas |-> "absent"]
    /\ blob_writes = [s \in Shas |-> 0]
    /\ artifact_rows = {}
    /\ ing = [i \in Ingests |-> NoIngest]
    /\ now = 0
    /\ tokens = {}
    /\ dl = NoDownload
    /\ deletes = [d \in Deleters |-> NoDelete]
    /\ NoSessions
    /\ reduced = [token_count |-> <<>>, updates |-> <<>>]
    /\ context = NoContext


(***************************************************************************)
(* Process start                                                           *)
(***************************************************************************)

\* the lifespan hook stores the checkpointer in backend.main._checkpointer_cm
LifespanStartup ==
    /\ ~checkpointer_cm
    /\ checkpointer_cm' = TRUE
    /\ UNCHANGED <<outsideStream, dbVars, locks, ckpt, pc, payload, frames, localVars, run,
                   used>>

(***************************************************************************)
(* post_message_stream: validation and the idempotent insert               *)
(***************************************************************************)

\* mutant of PostStatus: a failed commit is not turned into a conflict
PostStatus_NoConflict(r, t, m, role) ==
    IF role # "user" THEN "400"
    ELSE IF t \notin threads THEN "404"
    ELSE "200"

\* mutant of PostStatus: the thread is looked up before the role is checked
PostStatus_ThreadFirst(r, t, m, role) ==
    IF t \notin threads THEN "404"
    ELSE IF role # "user" THEN "400"
    ELSE IF UniqueViolation(message_rows, {UserRow(r, t, m)}) THEN "409"
    ELSE "200"

\* api.py 509-532: the status the handler answers with ("200" opens the stream)
PostStatus(r, t, m, role) ==
    IF role # "user" THEN "400"
    ELSE IF t \notin threads THEN "404"
    ELSE IF UniqueViolation(message_rows, {UserRow(r, t, m)}) THEN "409"
    ELSE "200"

\* mutant of post_message_stream: the user row stays when the answer is 409
post_message_stream_NoRollback(r, t, m, role) ==
    /\ pc[r] = "idle"
    /\ \A q \in ArrivedBefore(r) : pc[q] # "idle"
    /\ \A k \in NamedBefore(m) : \E q \in Reqs : payload[q].message_id = k
    /\ payload' = [payload EXCEPT ![r] = [thread_id |-> t, message_id |-> m, role |-> role]]
    /\ LET status == PostStatus(r, t, m, role)
       IN  /\ message_rows' = IF status \in {"200", "409"}
                               THEN message_rows \cup {UserRow(r, t, m)}
                               ELSE message_rows
           /\ pc' = [pc EXCEPT ![r] = IF status = "200" THEN "stream_open"
                                      ELSE "r" \o status]
    /\ UNCHANGED <<outsideStream, checkpointer_cm, threads, title, cfg, locks, ckpt, frames,
                   localVars, run, used>>

\* api.py 498-533 and 773
post_message_stream(r, t, m, role) ==
    /\ pc[r] = "idle"
    /\ \A q \in ArrivedBefore(r) : pc[q] # "idle"
    /\ \A k \in NamedBefore(m) : \E q \in Reqs : payload[q].message_id = k
    /\ payload' = [payload EXCEPT ![r] = [thread_id |-> t, message_id |-> m, role |-> role]]
    /\ LET status == PostStatus(r, t, m, role)
       IN  IF status = "200"
           THEN /\ message_rows' = message_rows \cup {UserRow(r, t, m)}
                /\ pc' = [pc EXCEPT ![r] = "stream_open"]
           ELSE /\ message_rows' = message_rows
                /\ pc' = [pc EXCEPT ![r] = "r" \o status]
    /\ UNCHANGED <<outsideStream, checkpointer_cm, threads, title, cfg, locks, ckpt, frames,
                   localVars, run, used>>

(***************************************************************************)
(* event_stream: the SSE body                                              *)
(***************************************************************************)

\* one more fault of the environment
Fault ==
    /\ used.faults < MaxFaults
    /\ used' = [used EXCEPT !.faults = @ + 1]

Yield(r, fs) == frames' = [frames EXCEPT ![r] = @ \o fs]

\* the generator is finished: its locals are gone
Finish(r, how) ==
    /\ pc' = [pc EXCEPT ![r] = how]
    /\ tool_calls' = [tool_calls EXCEPT ![r] = <<>>]
    /\ assistant_content' = [assistant_content EXCEPT ![r] = "None"]
    /\ a_msg_id' = [a_msg_id EXCEPT ![r] = <<>>]
    /\ run' = [run EXCEPT ![r] = NoRun]

\* mutant of Release: the lock stays with the run that ended
Release_Never(r) == UNCHANGED locks

Release(r) ==
    locks' = [t \in ThreadIds |-> IF locks[t] = r THEN NoReq ELSE locks[t]]

\* api.py 762-771: `except Exception` around the locked block; the lock has
\* been released by the time the handler runs
ExceptHandler(r, e) ==
    /\ Yield(r, <<ErrorFrame(e)>>)
    /\ Release(r)
    /\ Finish(r, "ended")

\* api.py 560-570: graph.aget_state(config) reads the local `config`; while it
\* is unbound the read raises UnboundLocalError, which the except clause logs
GetStateFrames(r) ==
    LET t == payload[r].thread_id
    IN  IF ConfigBound(r)
        THEN <<ContextUpdateFrame(ckpt[t].token_count, max_tokens(t))>>
        ELSE <<>>

\* api.py 535-572: the body up to the lock; nothing in it suspends.
\* make_graph builds the model clients and may raise (graph_ok = FALSE); the
\* call is outside every try block
StartStream(r, graph_ok) ==
    /\ pc[r] = "stream_open"
    /\ IF ~checkpointer_cm
       THEN /\ Yield(r, <<CheckpointerFrame>>)
            /\ pc' = [pc EXCEPT ![r] = "ended"]
       ELSE IF ~graph_ok
       THEN /\ pc' = [pc EXCEPT ![r] = "raised"]
            /\ UNCHANGED frames
       ELSE /\ Yield(r, GetStateFrames(r))
            /\ pc' = [pc EXCEPT ![r] = "lock"]
    /\ IF checkpointer_cm /\ ~graph_ok THEN Fault ELSE UNCHANGED used
    /\ UNCHANGED <<outsideStream, checkpointer_cm, dbVars, locks, ckpt, payload, localVars, run>>

\* mutant of AcquireLock: the block is entered without waiting for the lock
AcquireLock_NoWait(r) ==
    LET t == payload[r].thread_id
    IN  /\ pc[r] = "lock"
        /\ locks' = [locks EXCEPT ![get_thread_lock(t)] = r]
        /\ ckpt' = [ckpt EXCEPT ![t].messages = Append(@, <<r, "user">>)]
        /\ pc' = [pc EXCEPT ![r] = "agent_node"]
        /\ run' = [run EXCEPT ![r] = NoRun]
        /\ UNCHANGED <<outsideStream, checkpointer_cm, dbVars, payload, frames, localVars, used>>

\* api.py 572-586: async with lock, then the graph run starts on the input
\* {"messages": [user message]}, which the messages reducer appends
AcquireLock(r) ==
    LET t == payload[r].thread_id
    IN  /\ pc[r] = "lock"
        /\ locks[get_thread_lock(t)] = NoReq
        /\ locks' = [locks EXCEPT ![get_thread_lock(t)] = r]
        /\ ckpt' = [ckpt EXCEPT ![t].messages = Append(@, <<r, "user">>)]
        /\ pc' = [pc EXCEPT ![r] = "agent_node"]
        /\ run' = [run EXCEPT ![r] = NoRun]
        /\ UNCHANGED <<outsideStream, checkpointer_cm, dbVars, payload, frames, localVars, used>>


(***************************************************************************)
(* The agent graph (backend/graph/graph.py), driven by astream_events      *)
(***************************************************************************)

\* graph.py 152-167: entry of agent_node; the runtime aborts a run that
\* needs more than RecursionLimit supersteps
agent_node(r) ==
    LET t == payload[r].thread_id
        current_tokens == ckpt[t].token_count
    IN  /\ pc[r] = "agent_node"
        /\ IF run[r].steps >= RecursionLimit
           THEN ExceptHandler(r, "GraphRecursionError")
           ELSE /\ run' = [run EXCEPT ![r].steps = @ + 1]
                /\ pc' = [pc EXCEPT ![r] =
                            IF OverThreshold(current_tokens, CfgContextWindow(t))
                            THEN "summarize" ELSE "model"]
                /\ UNCHANGED <<frames, locks, localVars>>
        /\ UNCHANGED <<outsideStream, checkpointer_cm, dbVars, ckpt, payload, used>>

\* api.py 604-605: on_chat_model_start inside summarize_conversation
SummarizerModelStart(r) ==
    /\ pc[r] = "summarize"
    /\ run[r].steps < RecursionLimit
    /\ Yield(r, <<SummarizingFrame("start")>>)
    /\ pc' = [pc EXCEPT ![r] = "summ_stream"]
    /\ run' = [run EXCEPT ![r].steps = @ + 1]
    /\ UNCHANGED <<outsideStream, checkpointer_cm, dbVars, locks, ckpt, payload, localVars, used>>

\* the runtime aborts before the summarize node when the limit is reached
SummarizeOverLimit(r) ==
    /\ pc[r] = "summarize"
    /\ run[r].steps >= RecursionLimit
    /\ ExceptHandler(r, "GraphRecursionError")
    /\ UNCHANGED <<outsideStream, checkpointer_cm, dbVars, ckpt, payload, used>>

\* api.py 594-597: a chunk streamed by the summarizer is skipped
SummarizerModelStream(r) ==
    /\ pc[r] = "summ_stream"
    /\ UNCHANGED vars

\* api.py 608-613: on_chat_model_end inside summarize_conversation
SummarizerModelEnd(r) ==
    /\ pc[r] = "summ_stream"
    /\ Yield(r, <<SummarizingFrame("done"),
                  ContextUpdateFrame(0, max_tokens(payload[r].thread_id))>>)
    /\ pc' = [pc EXCEPT ![r] = "summ_return"]
    /\ UNCHANGED <<outsideStream, checkpointer_cm, dbVars, locks, ckpt, payload, localVars, run, used>>

\* mutant of KeepRecent: the slice is taken from the wrong end, so the 4
\* oldest messages are the ones kept
KeepRecent_Oldest(messages) ==
    IF Len(messages) <= 4 THEN messages ELSE SubSeq(messages, 1, 4)

\* graph.py 139-140: all but the 4 most recent messages are removed
KeepRecent(messages) ==
    IF Len(messages) <= 4 THEN messages
    ELSE SubSeq(messages, Len(messages) - 3, Len(messages))

\* graph.py 137-149: the Command returned by summarize_conversation
summarize_conversation(r, summary) ==
    LET t == payload[r].thread_id
    IN  /\ pc[r] = "summ_return"
        /\ ckpt' = [ckpt EXCEPT ![t] =
                      [token_count |-> update_token_count(<<@.token_count>>, <<-1>>),
                       summary |-> summary,
                       messages |-> KeepRecent(@.messages)]]
        /\ pc' = [pc EXCEPT ![r] = "agent_node"]
        /\ UNCHANGED <<outsideStream, checkpointer_cm, dbVars, locks, payload, frames, localVars,
                       run, used>>

\* api.py 594-601: a chunk streamed by the agent's model
ModelStream(r, content) ==
    /\ pc[r] = "model"
    /\ IF Truthy(content)
       THEN /\ used.chunks < MaxChunks
            /\ Yield(r, <<TokenFrame(content)>>)
            /\ used' = [used EXCEPT !.chunks = @ + 1]
       ELSE UNCHANGED <<frames, used>>
    /\ UNCHANGED <<outsideStream, checkpointer_cm, dbVars, locks, ckpt, pc, payload, localVars, run>>

\* api.py 682-689: on_chat_model_end of the agent's model; the model either
\* requests a tool (a message without text) or gives its final answer
ModelEnd(r, content, wants_tool) ==
    /\ pc[r] = "model"
    /\ wants_tool => used.tools < MaxTools /\ content = ""
    /\ assistant_content' = [assistant_content EXCEPT ![r] = content]
    /\ pc' = [pc EXCEPT ![r] = IF wants_tool THEN "tool_start" ELSE "agent_return"]
    /\ UNCHANGED <<outsideStream, checkpointer_cm, dbVars, locks, ckpt, payload, frames,
                   tool_calls, a_msg_id, run, used>>

\* mutant of ModelFailure: the exception is caught inside the streaming loop,
\* the error frame is sent and the body goes on to persist what it captured
ModelFailure_Swallowed(r) ==
    /\ pc[r] \in {"model", "summ_stream"}
    /\ Fault
    /\ Yield(r, <<ErrorFrame("model error")>>)
    /\ pc' = [pc EXCEPT ![r] = "persist"]
    /\ UNCHANGED <<outsideStream, checkpointer_cm, dbVars, locks, ckpt, payload, localVars, run>>

\* a model call raises (agent model or summarizer model): the exception
\* leaves astream_events and the locked block
ModelFailure(r) ==
    /\ pc[r] \in {"model", "summ_stream"}
    /\ Fault
    /\ ExceptHandler(r, "model error")
    /\ UNCHANGED <<outsideStream, checkpointer_cm, dbVars, ckpt, payload>>

\* api.py 616-618: on_tool_start
ToolStart(r, name) ==
    /\ pc[r] = "tool_start"
    /\ Yield(r, <<ToolStartFrame(name)>>)
    /\ run' = [run EXCEPT ![r].tool = name]
    /\ used' = [used EXCEPT !.tools = @ + 1]
    /\ pc' = [pc EXCEPT ![r] = "tool_end"]
    /\ UNCHANGED <<outsideStream, checkpointer_cm, dbVars, locks, ckpt, payload, localVars>>

\* id of the tool call that follows n earlier ones of the run
CallId(n) == "call_" \o ToString(n)

\* api.py 654-661: the tool_call_id is taken from a Command output only
ExtractToolCallId(name, n) ==
    IF name = "code_sandbox" THEN CallId(n) ELSE "None"

\* api.py 621-679: on_tool_end
ToolEnd(r) ==
    /\ pc[r] = "tool_end"
    /\ tool_calls' = [tool_calls EXCEPT ![r] =
                        Append(@, [name |-> run[r].tool,
                                   tool_call_id |->
                                       ExtractToolCallId(run[r].tool, Len(@))])]
    /\ Yield(r, <<ToolEndFrame(run[r].tool)>>)
    /\ run' = [run EXCEPT ![r].tool = "None"]
    /\ pc' = [pc EXCEPT ![r] = "model"]
    /\ UNCHANGED <<outsideStream, checkpointer_cm, dbVars, locks, ckpt, payload,
                   assistant_content, a_msg_id, used>>

\* graph.py 181-193: the Command returned by agent_node after the model call
AgentReturn(r, meta) ==
    LET t == payload[r].thread_id
    IN  /\ pc[r] = "agent_return"
        /\ ckpt' = [ckpt EXCEPT ![t] =
                      [token_count |->
                           update_token_count(<<@.token_count>>, <<input_tokens(meta)>>),
                       summary |-> @.summary,
                       messages |-> Append(@.messages, <<r, "assistant">>)]]
        /\ pc' = [pc EXCEPT ![r] = "persist"]
        /\ UNCHANGED <<outsideStream, checkpointer_cm, dbVars, locks, payload, frames, localVars,
                       run, used>>


(***************************************************************************)
(* event_stream: persistence, titling, done                                *)
(***************************************************************************)

\* api.py 695-719: the rows added to write_sess
TurnRows(r) ==
    {ToolRow(r, i) : i \in 1..Len(tool_calls[r])}
        \cup (IF Truthy(assistant_content[r]) THEN {AssistantRow(r)} ELSE {})

\* Message.thread_id references Thread.id: a row of a thread that is gone
ForeignKeyViolation(rows) == \E x \in rows : x.thread_id \notin threads

\* api.py 712-723: write_sess.commit() runs only on these two branches
Commits(r) == Truthy(assistant_content[r]) \/ tool_calls[r] # <<>>

\* api.py 691-723: the post-stream transaction
Persist(r) ==
    /\ pc[r] = "persist"
    /\ IF Commits(r) /\ ( \/ UniqueViolation(message_rows, TurnRows(r))
                          \/ ForeignKeyViolation(TurnRows(r)) )
       THEN /\ ExceptHandler(r, "IntegrityError")
            /\ UNCHANGED message_rows
       ELSE /\ message_rows' = IF Commits(r) THEN message_rows \cup TurnRows(r)
                               ELSE message_rows
            /\ a_msg_id' = [a_msg_id EXCEPT ![r] =
                              IF Truthy(assistant_content[r])
                              THEN <<AssistantRow(r).id>> ELSE <<>>]
            /\ pc' = [pc EXCEPT ![r] =
                        IF Truthy(assistant_content[r]) THEN "title" ELSE "done_frame"]
            /\ UNCHANGED <<frames, locks, tool_calls, assistant_content, run>>
    /\ UNCHANGED <<outsideStream, checkpointer_cm, threads, title, cfg, ckpt, payload, used>>

\* mutant of AutoTitle: a failure reaches the handler of the locked block
AutoTitle_Raises(r, ok) ==
    LET t == payload[r].thread_id
    IN  /\ pc[r] = "title"
        /\ IF t \in threads /\ title[t] = "New chat"
           THEN IF ok
                THEN /\ title' = [title EXCEPT ![t] = "generated"]
                     /\ Yield(r, <<TitleUpdatedFrame("generated")>>)
                     /\ pc' = [pc EXCEPT ![r] = "done_frame"]
                     /\ UNCHANGED <<used, locks, localVars, run>>
                ELSE /\ Fault
                     /\ ExceptHandler(r, "title error")
                     /\ UNCHANGED title
           ELSE /\ ok
                /\ pc' = [pc EXCEPT ![r] = "done_frame"]
                /\ UNCHANGED <<title, frames, used, locks, localVars, run>>
        /\ UNCHANGED <<outsideStream, checkpointer_cm, threads, cfg, message_rows, ckpt,
                       payload>>

\* api.py 725-758: best-effort auto-title; a failure is logged and swallowed
AutoTitle(r, ok) ==
    LET t == payload[r].thread_id
    IN  /\ pc[r] = "title"
        /\ IF t \in threads /\ title[t] = "New chat"
           THEN IF ok
                THEN /\ title' = [title EXCEPT ![t] = "generated"]
                     /\ Yield(r, <<TitleUpdatedFrame("generated")>>)
                     /\ UNCHANGED used
                ELSE /\ Fault
                     /\ UNCHANGED <<title, frames>>
           ELSE /\ ok
                /\ UNCHANGED <<title, frames, used>>
        /\ pc' = [pc EXCEPT ![r] = "done_frame"]
        /\ UNCHANGED <<outsideStream, checkpointer_cm, threads, cfg, message_rows, locks, ckpt,
                       payload, localVars, run>>

\* api.py 760: the done frame, after which the locked block is left
EmitDone(r) ==
    /\ pc[r] = "done_frame"
    /\ Yield(r, <<DoneFrame(a_msg_id[r])>>)
    /\ Release(r)
    /\ Finish(r, "ended")
    /\ UNCHANGED <<outsideStream, checkpointer_cm, dbVars, ckpt, payload, used>>

\* api.py 773: the body is an async generator consumed by StreamingResponse;
\* when the client goes away the response task is cancelled and the generator
\* is closed where it is suspended (CancelledError / GeneratorExit are not
\* Exceptions, so the except clause does not run; `async with` releases)
ClientDisconnect(r) ==
    /\ pc[r] \in StreamPcs
    /\ Fault
    /\ Release(r)
    /\ Finish(r, "closed")
    /\ UNCHANGED <<outsideStream, checkpointer_cm, dbVars, ckpt, payload, frames>>

(***************************************************************************)
(* Specification                                                           *)
(***************************************************************************)

Next ==
    \/ LifespanStartup
    \/ \E r \in Reqs : \E t \in Addressable(r), m \in MsgIds, role \in Roles :
          post_message_stream(r, t, m, role)
    \/ \E r \in Reqs, graph_ok \in BOOLEAN : StartStream(r, graph_ok)
    \/ \E r \in Reqs : AcquireLock(r)
    \/ \E r \in Reqs : agent_node(r)
    \/ \E r \in Reqs : SummarizerModelStart(r)
    \/ \E r \in Reqs : SummarizeOverLimit(r)
    \/ \E r \in Reqs : SummarizerModelStream(r)
    \/ \E r \in Reqs : SummarizerModelEnd(r)
    \/ \E r \in Reqs, summary \in SummaryTexts : summarize_conversation(r, summary)
    \/ \E r \in Reqs, content \in Contents : ModelStream(r, content)
    \/ \E r \in Reqs, content \in Contents, wants_tool \in BOOLEAN :
          ModelEnd(r, content, wants_tool)
    \/ \E r \in Reqs : ModelFailure(r)
    \/ \E r \in Reqs, name \in ToolNames : ToolStart(r, name)
    \/ \E r \in Reqs : ToolEnd(r)
    \/ \E r \in Reqs, meta \in UsageMetadata : AgentReturn(r, meta)
    \/ \E r \in Reqs : Persist(r)
    \/ \E r \in Reqs, ok \in BOOLEAN : AutoTitle(r, ok)
    \/ \E r \in Reqs : EmitDone(r)
    \/ \E r \in Reqs : ClientDisconnect(r)

Spec == Init /\ [][Next]_vars


(***************************************************************************)
(* Artifact registry (backend/artifacts/ingest.py, storage.py)             *)
(***************************************************************************)

\* the sandbox writes a file with contents b to the staging path p
Stage(p, b) ==
    /\ used.staged < MaxStaged
    /\ staging[p] = NoFile
    /\ \A i \in Ingests :
          ing[i].pc \in {"loop", "flush"}
              => \A k \in DOMAIN ing[i].new_paths : ing[i].new_paths[k].path # p
    /\ staging' = [staging EXCEPT ![p] = b]
    /\ used' = [used EXCEPT !.staged = @ + 1]
    /\ UNCHANGED <<outsideStore, blobs, blob_writes, artifact_rows, ing>>

\* ingest.py 84: the paths of the batch that are files, with what they hold
new_paths(batch) ==
    LET present == SelectSeq(batch, LAMBDA p : staging[p] # NoFile)
    IN  [k \in 1..Len(present) |-> [path |-> present[k], bytes |-> staging[present[k]]]]

\* ingest.py 48-84: a call of ingest_files for thread t on the files of batch
ingest_files(i, t, batch) ==
    /\ ing[i].pc = "idle"
    /\ \A j \in StartedBefore(i) : ing[j].pc # "idle"
    /\ \A j \in Ingests :
          ing[j].pc \in {"loop", "flush"}
              => \A k \in DOMAIN ing[j].new_paths, n \in DOMAIN batch :
                     ing[j].new_paths[k].path # batch[n]
    /\ ing' = [ing EXCEPT ![i] =
                 [pc |-> "loop", thread_id |-> t, new_paths |-> new_paths(batch),
                  idx |-> 1, added |-> {}, descriptors |-> <<>>, error |-> "None"]]
    /\ UNCHANGED <<outsideStore, used, staging, blobs, blob_writes, artifact_rows>>

\* the file the loop of call i is at
Src(i) == ing[i].new_paths[ing[i].idx]

\* mutant of TooLarge: a file of exactly the cap is refused as well
TooLarge_AtLimit(size) == size >= get_max_artifact_size

\* ingest.py 90: size > max_bytes
TooLarge(size) == size > get_max_artifact_size

\* ingest.py 92-100: the descriptor of a file that is skipped
ErrorDescriptor(src) ==
    [id |-> <<>>, name |-> src.path, size |-> st_size(src.bytes), sha256 |-> "None",
     error |-> "File too large"]

\* ingest.py 123-130: the descriptor of an ingested file
Descriptor(artifact, src) ==
    [id |-> <<artifact.id>>, name |-> src.path, size |-> artifact.size,
     sha256 |-> artifact.sha256, error |-> "None"]

\* ingest.py 86-101: a file over the cap gets an error descriptor and the
\* loop goes on with the next file
SkipTooLarge(i) ==
    /\ ing[i].pc = "loop"
    /\ ing[i].idx <= Len(ing[i].new_paths)
    /\ TooLarge(st_size(Src(i).bytes))
    /\ ing' = [ing EXCEPT ![i].descriptors = Append(@, ErrorDescriptor(Src(i))),
                          ![i].idx = @ + 1]
    /\ UNCHANGED <<outsideStore, used, staging, blobs, blob_writes, artifact_rows>>

\* the call raises: the rows its session had added are never committed
Raise(i, e) ==
    ing' = [ing EXCEPT ![i].pc = "raised", ![i].added = {}, ![i].error = e]

\* storage.py 93-121: copy_to_blobstore. Nothing is written when the
\* destination exists; otherwise the destination is opened and written chunk
\* by chunk, and a copy that fails part-way leaves what it had written
copy_to_blobstore(i, sha, completes) ==
    IF blobs[sha] # "absent"
    THEN /\ completes
         /\ UNCHANGED <<blobs, blob_writes, used>>
    ELSE /\ blob_writes' = [blob_writes EXCEPT ![sha] = @ + 1]
         /\ IF completes
            THEN /\ blobs' = [blobs EXCEPT ![sha] = "whole"]
                 /\ UNCHANGED used
            ELSE /\ blobs' = [blobs EXCEPT ![sha] = "partial"]
                 /\ Fault

\* ingest.py 103-120, 174-179: fingerprint, copy into the blob store, then
\* create_artifact up to its `await session.flush()`
upsert_artifact(i, completes) ==
    /\ ing[i].pc = "loop"
    /\ ing[i].idx <= Len(ing[i].new_paths)
    /\ ~TooLarge(st_size(Src(i).bytes))
    /\ copy_to_blobstore(i, file_sha256(Src(i).bytes), completes)
    /\ IF completes
       THEN ing' = [ing EXCEPT ![i].pc = "flush"]
       ELSE Raise(i, "OSError")
    /\ UNCHANGED <<outsideStore, staging, artifact_rows>>

\* the Artifact row of the file call i is at (storage.py 163-174)
ArtifactRow(i) ==
    [id |-> <<i, ing[i].idx>>, thread_id |-> ing[i].thread_id,
     sha256 |-> file_sha256(Src(i).bytes), size |-> st_size(Src(i).bytes),
     tool_call_id |-> i]

\* unique constraint on Artifact.sha256: a row with this fingerprint exists
Sha256Taken(rows, sha) == \E a \in rows : a.sha256 = sha

\* mutant of create_artifact: the row is inserted whatever rows exist
create_artifact_NoConstraint(i) ==
    /\ ing[i].pc = "flush"
    /\ ing' = [ing EXCEPT ![i].pc = "loop",
                          ![i].added = @ \cup {ArtifactRow(i)},
                          ![i].descriptors = Append(@, Descriptor(ArtifactRow(i), Src(i))),
                          ![i].idx = @ + 1]
    /\ staging' = [staging EXCEPT ![Src(i).path] = NoFile]
    /\ UNCHANGED <<outsideStore, used, blobs, blob_writes, artifact_rows>>

\* storage.py 175-177 and ingest.py 122-142: the flush inserts the row (it
\* waits while another transaction holds an uncommitted row with the same
\* fingerprint, and fails when such a row exists); then the descriptor is
\* built and the staged file is deleted
create_artifact(i) ==
    /\ ing[i].pc = "flush"
    /\ \A j \in Ingests \ {i} : ~Sha256Taken(ing[j].added, ArtifactRow(i).sha256)
    /\ IF Sha256Taken(artifact_rows \cup ing[i].added, ArtifactRow(i).sha256)
       THEN /\ Raise(i, "IntegrityError")
            /\ UNCHANGED staging
       ELSE /\ ing' = [ing EXCEPT ![i].pc = "loop",
                                  ![i].added = @ \cup {ArtifactRow(i)},
                                  ![i].descriptors =
                                      Append(@, Descriptor(ArtifactRow(i), Src(i))),
                                  ![i].idx = @ + 1]
            /\ staging' = [staging EXCEPT ![Src(i).path] = NoFile]
    /\ UNCHANGED <<outsideStore, used, blobs, blob_writes, artifact_rows>>

\* ingest.py 144-147: commit all artifacts in one transaction and return
IngestCommit(i) ==
    /\ ing[i].pc = "loop"
    /\ ing[i].idx > Len(ing[i].new_paths)
    /\ artifact_rows' = artifact_rows \cup ing[i].added
    /\ ing' = [ing EXCEPT ![i].pc = "returned", ![i].added = {}]
    /\ UNCHANGED <<outsideStore, used, staging, blobs, blob_writes>>

\* the artifact store starts empty, with no request in the orchestrator
ArtInit ==
    /\ Init
    /\ cfg["t1"] = <<[context_window |-> <<>>]>>
    /\ ckpt["t1"].token_count = 0

ArtNext ==
    \/ \E p \in Paths, b \in Bytes : Stage(p, b)
    \/ \E i \in Ingests, t \in ThreadIds, batch \in Batches : ingest_files(i, t, batch)
    \/ \E i \in Ingests : SkipTooLarge(i)
    \/ \E i \in Ingests, completes \in BOOLEAN : upsert_artifact(i, completes)
    \/ \E i \in Ingests : create_artifact(i)
    \/ \E i \in Ingests : IngestCommit(i)

ArtSpec == ArtInit /\ [][ArtNext]_vars


(***************************************************************************)
(* The download endpoints and the token service                            *)
(***************************************************************************)

\* the artifact_id path parameter: u1 and U1 spell the same UUID, u3 is the
\* UUID of no row, zz is not a UUID
ArtifactIdStrings == {"u1", "U1", "u2", "u3", "zz"}

\* uuid.UUID(artifact_id): the row id a string spells, none on ValueError
uuid_UUID(text) ==
    CASE text \in {"u1", "U1"} -> << <<"i1", 1>> >>
      [] text = "u2" -> << <<"i2", 1>> >>
      [] text = "u3" -> << <<"i2", 2>> >>
      [] OTHER -> <<>>

\* str(art.id): the canonical spelling of a row id
str_UUID(id) ==
    CASE id = <<"i1", 1>> -> "u1"
      [] id = <<"i2", 1>> -> "u2"
      [] OTHER -> "u3"

\* the moments the clock is read at: issue, the last valid second, after it
Instants == {0, 1, ARTIFACTS_TOKEN_TTL_SECONDS, ARTIFACTS_TOKEN_TTL_SECONDS + 1}

\* issue: the signed payload {artifact_id, exp}
create_token(artifact_id) ==
    [artifact_id |-> artifact_id, exp |-> now + ARTIFACTS_TOKEN_TTL_SECONDS,
     sig |-> "good"]

\* tokens the service never signed: a payload with a wrong signature for each
\* id, and a string that is no token at all
Forged ==
    {[artifact_id |-> a, exp |-> 2 * ARTIFACTS_TOKEN_TTL_SECONDS, sig |-> "bad"] :
        a \in ArtifactIdStrings}
    \cup {[artifact_id |-> "none", exp |-> 0, sig |-> "malformed"]}

\* the tokens the service signed
Signed == {e.token : e \in tokens}

\* mutant of verify_token: the expiry is not looked at
verify_token_NoExpiry(token) ==
    IF token.sig # "good"
    THEN [raised |-> "invalid-token", data |-> <<>>]
    ELSE [raised |-> "None",
          data |-> <<[artifact_id |-> token.artifact_id, exp |-> token.exp]>>]

\* verify: invalid-token, expired, or the payload
verify_token(token) ==
    IF token.sig # "good"
    THEN [raised |-> "invalid-token", data |-> <<>>]
    ELSE IF now > token.exp
    THEN [raised |-> "expired", data |-> <<>>]
    ELSE [raised |-> "None",
          data |-> <<[artifact_id |-> token.artifact_id, exp |-> token.exp]>>]

\* storage.get_artifact_by_id: the row with this id, if any
get_artifact_by_id(id) == {a \in artifact_rows : a.id = id}

\* raise HTTPException(status_code, detail)
HTTPException(status_code, detail) ==
    [status |-> status_code, detail |-> detail, of |-> <<>>, content |-> "none"]

\* FileResponse(path=blob_path): the bytes on disk at the row's blob path
FileResponse(artifact) ==
    [status |-> 200, detail |-> "None", of |-> <<artifact.id>>,
     content |-> blobs[artifact.sha256]]

\* JSONResponse of the row's metadata
JSONResponse(artifact) ==
    [status |-> 200, detail |-> "None", of |-> <<artifact.id>>,
     content |-> <<str_UUID(artifact.id), artifact.sha256, artifact.size,
                   artifact.thread_id, artifact.tool_call_id>>]

\* mutant of DownloadResponse: the id is parsed before the token is compared
DownloadResponse_ParseFirst(artifact_id, token) ==
    LET v == verify_token(token) IN
    IF v.raised # "None" THEN HTTPException(401, v.raised)
    ELSE IF uuid_UUID(artifact_id) = <<>>
    THEN HTTPException(400, "Invalid artifact ID format")
    ELSE IF v.data[1].artifact_id # artifact_id
    THEN HTTPException(403, "Token does not match artifact")
    ELSE LET found == get_artifact_by_id(uuid_UUID(artifact_id)[1]) IN
         IF found = {} THEN HTTPException(404, "Artifact not found")
         ELSE LET artifact == CHOOSE a \in found : TRUE IN
              IF blobs[artifact.sha256] = "absent"
              THEN HTTPException(410, "Blob missing (pruned?)")
              ELSE FileResponse(artifact)

\* download_artifact: what the handler answers
DownloadResponse(artifact_id, token) ==
    LET v == verify_token(token) IN
    IF v.raised # "None" THEN HTTPException(401, v.raised)
    ELSE IF v.data[1].artifact_id # artifact_id
    THEN HTTPException(403, "Token does not match artifact")
    ELSE IF uuid_UUID(artifact_id) = <<>>
    THEN HTTPException(400, "Invalid artifact ID format")
    ELSE LET found == get_artifact_by_id(uuid_UUID(artifact_id)[1]) IN
         IF found = {} THEN HTTPException(404, "Artifact not found")
         ELSE LET artifact == CHOOSE a \in found : TRUE IN
              IF blobs[artifact.sha256] = "absent"
              THEN HTTPException(410, "Blob missing (pruned?)")
              ELSE FileResponse(artifact)

\* mutant of HeadResponse: the token is not compared with the path
HeadResponse_AnyToken(artifact_id, token) ==
    LET v == verify_token(token) IN
    IF v.raised # "None" THEN HTTPException(401, v.raised)
    ELSE IF uuid_UUID(artifact_id) = <<>>
    THEN HTTPException(400, "Invalid artifact ID format")
    ELSE LET found == get_artifact_by_id(uuid_UUID(artifact_id)[1]) IN
         IF found = {} THEN HTTPException(404, "Artifact not found")
         ELSE JSONResponse(CHOOSE a \in found : TRUE)

\* head_artifact: what the handler answers
HeadResponse(artifact_id, token) ==
    LET v == verify_token(token) IN
    IF v.raised # "None" THEN HTTPException(401, v.raised)
    ELSE IF v.data[1].artifact_id # artifact_id
    THEN HTTPException(403, "Token does not match artifact")
    ELSE IF uuid_UUID(artifact_id) = <<>>
    THEN HTTPException(400, "Invalid artifact ID format")
    ELSE LET found == get_artifact_by_id(uuid_UUID(artifact_id)[1]) IN
         IF found = {} THEN HTTPException(404, "Artifact not found")
         ELSE JSONResponse(CHOOSE a \in found : TRUE)

\* GET /artifacts/{artifact_id}?token=
download_artifact(artifact_id, token) ==
    /\ dl.pc = "idle"
    /\ dl' = [pc |-> "done", endpoint |-> "download", artifact_id |-> artifact_id,
              token |-> <<token>>, at |-> now,
              response |-> <<DownloadResponse(artifact_id, token)>>]
    /\ UNCHANGED <<outsideDownload, now, tokens>>

\* GET /artifacts/{artifact_id}/head?token=
head_artifact(artifact_id, token) ==
    /\ dl.pc = "idle"
    /\ dl' = [pc |-> "done", endpoint |-> "head", artifact_id |-> artifact_id,
              token |-> <<token>>, at |-> now,
              response |-> <<HeadResponse(artifact_id, token)>>]
    /\ UNCHANGED <<outsideDownload, now, tokens>>

\* the token service issues a token for an artifact id
create_download_url(artifact_id) ==
    /\ Cardinality(tokens) < MaxTokens
    /\ tokens' = tokens \cup {[for |-> artifact_id, iat |-> now,
                               token |-> create_token(artifact_id)]}
    /\ UNCHANGED <<outsideDownload, now, dl>>

\* time passes
Tick(t) ==
    /\ t > now
    /\ now' = t
    /\ UNCHANGED <<outsideDownload, tokens, dl>>

\* two ingested artifacts, the blob of the second one gone from the disk
DlInit ==
    /\ checkpointer_cm = FALSE
    /\ threads = ThreadIds
    /\ title = [t \in ThreadIds |-> "New chat"]
    /\ message_rows = {}
    /\ locks = [t \in ThreadIds |-> NoReq]
    /\ cfg = [t \in ThreadIds |-> <<>>]
    /\ ckpt = [t \in ThreadIds |-> [token_count |-> 0, summary |-> "", messages |-> <<>>]]
    /\ pc = [r \in Reqs |-> "idle"]
    /\ payload = [r \in Reqs |-> NoPayload]
    /\ frames = [r \in Reqs |-> <<>>]
    /\ tool_calls = [r \in Reqs |-> <<>>]
    /\ assistant_content = [r \in Reqs |-> "None"]
    /\ a_msg_id = [r \in Reqs |-> <<>>]
    /\ run = [r \in Reqs |-> NoRun]
    /\ used = [tools |-> 0, chunks |-> 0, faults |-> 0, staged |-> 0]
    /\ staging = [p \in Paths |-> NoFile]
    /\ blobs = [s \in Shas |-> IF s = file_sha256("small") THEN "whole" ELSE "absent"]
    /\ blob_writes = [s \in Shas |-> IF s = file_sha256("overcap") THEN 0 ELSE 1]
    /\ artifact_rows =
          {[id |-> <<"i1", 1>>, thread_id |-> "t1", sha256 |-> file_sha256("small"),
            size |-> st_size("small"), tool_call_id |-> "i1"],
           [id |-> <<"i2", 1>>, thread_id |-> "t2", sha256 |-> file_sha256("atcap"),
            size |-> st_size("atcap"), tool_call_id |-> "i2"]}
    /\ ing = [i \in Ingests |-> NoIngest]
    /\ now = 0
    /\ tokens = {}
    /\ dl = NoDownload
    /\ deletes = [d \in Deleters |-> NoDelete]
    /\ NoSessions
    /\ reduced = [token_count |-> <<>>, updates |-> <<>>]
    /\ context = NoContext

DlNext ==
    \/ \E t \in Instants : Tick(t)
    \/ \E a \in ArtifactIdStrings : create_download_url(a)
    \/ \E a \in ArtifactIdStrings, token \in Signed \cup Forged : download_artifact(a, token)
    \/ \E a \in ArtifactIdStrings, token \in Signed \cup Forged : head_artifact(a, token)

DlSpec == DlInit /\ [][DlNext]_vars


(***************************************************************************)
(* DELETE /threads/{thread_id} (app/api.py delete_thread)                  *)
(***************************************************************************)

\* ON DELETE CASCADE of Message.thread_id, Artifact.thread_id and
\* Config.thread_id: the rows that are left when thread t is deleted
Cascade(rows, t) == {x \in rows : x.thread_id # t}

\* api.py 177-188: the request arrives and enters `async with lock` at once
\* when the lock is free, else it waits for it
delete_thread(d, t) ==
    /\ deletes[d].pc = "idle"
    /\ \A e \in DeletedBefore(d) : deletes[e].pc # "idle"
    /\ IF locks[get_thread_lock(t)] = NoReq
       THEN /\ locks' = [locks EXCEPT ![get_thread_lock(t)] = d]
            /\ deletes' = [deletes EXCEPT ![d] = [pc |-> "locked", thread_id |-> t,
                                                  status |-> "None"]]
       ELSE /\ deletes' = [deletes EXCEPT ![d] = [pc |-> "lock", thread_id |-> t,
                                                  status |-> "None"]]
            /\ UNCHANGED locks
    /\ UNCHANGED <<artVars, dlVars, sessVars, reduced, context, checkpointer_cm, dbVars, ckpt, pc, payload, frames,
                   localVars, run, used>>

\* api.py 188: the lock is free again and the waiting request takes it
DeleteAcquire(d) ==
    /\ deletes[d].pc = "lock"
    /\ locks[get_thread_lock(deletes[d].thread_id)] = NoReq
    /\ locks' = [locks EXCEPT ![get_thread_lock(deletes[d].thread_id)] = d]
    /\ deletes' = [deletes EXCEPT ![d].pc = "locked"]
    /\ UNCHANGED <<artVars, dlVars, sessVars, reduced, context, checkpointer_cm, dbVars, ckpt, pc, payload, frames,
                   localVars, run, used>>

\* mutant of DeleteCommit: the blobs of the thread's artifacts go with the rows
DeleteCommit_WithBlobs(d) ==
    LET t == deletes[d].thread_id
    IN  /\ deletes[d].pc = "locked"
        /\ IF t \notin threads
           THEN UNCHANGED <<dbVars, artifact_rows, blobs>>
           ELSE /\ threads' = threads \ {t}
                /\ message_rows' = Cascade(message_rows, t)
                /\ artifact_rows' = Cascade(artifact_rows, t)
                /\ blobs' = [s \in Shas |->
                               IF \E a \in artifact_rows : a.thread_id = t /\ a.sha256 = s
                               THEN "absent" ELSE blobs[s]]
                /\ cfg' = [cfg EXCEPT ![t] = <<>>]
                /\ UNCHANGED title
        /\ locks' = [locks EXCEPT ![get_thread_lock(t)] = NoReq]
        /\ deletes' = [deletes EXCEPT ![d].pc = "done", ![d].status = "204"]
        /\ UNCHANGED <<staging, blob_writes, ing, dlVars, sessVars, reduced, context, checkpointer_cm, ckpt, pc,
                       payload, frames, localVars, run, used>>

\* api.py 189-201: inside the lock the thread is read; a missing thread is
\* answered 204 as it is, else the thread is deleted and the commit cascades
\* to its rows; leaving the block releases the lock
DeleteCommit(d) ==
    LET t == deletes[d].thread_id
    IN  /\ deletes[d].pc = "locked"
        /\ IF t \notin threads
           THEN UNCHANGED <<dbVars, artifact_rows, blobs>>
           ELSE /\ threads' = threads \ {t}
                /\ message_rows' = Cascade(message_rows, t)
                /\ artifact_rows' = Cascade(artifact_rows, t)
                /\ cfg' = [cfg EXCEPT ![t] = <<>>]
                /\ UNCHANGED <<title, blobs>>
        /\ locks' = [locks EXCEPT ![get_thread_lock(t)] = NoReq]
        /\ deletes' = [deletes EXCEPT ![d].pc = "done", ![d].status = "204"]
        /\ UNCHANGED <<staging, blob_writes, ing, dlVars, sessVars, reduced, context, checkpointer_cm, ckpt, pc,
                       payload, frames, localVars, run, used>>

\* the application is up, thread t1 has an artifact and so has thread t2
DelInit ==
    /\ checkpointer_cm = TRUE
    /\ threads = ThreadIds
    /\ title = [t \in ThreadIds |-> "New chat"]
    /\ message_rows = {}
    /\ locks = [t \in ThreadIds |-> NoReq]
    /\ cfg = [t \in ThreadIds |-> <<>>]
    /\ ckpt = [t \in ThreadIds |-> [token_count |-> 0, summary |-> "", messages |-> <<>>]]
    /\ pc = [r \in Reqs |-> "idle"]
    /\ payload = [r \in Reqs |-> NoPayload]
    /\ frames = [r \in Reqs |-> <<>>]
    /\ tool_calls = [r \in Reqs |-> <<>>]
    /\ assistant_content = [r \in Reqs |-> "None"]
    /\ a_msg_id = [r \in Reqs |-> <<>>]
    /\ run = [r \in Reqs |-> NoRun]
    /\ used = [tools |-> 0, chunks |-> 0, faults |-> 0, staged |-> 0]
    /\ staging = [p \in Paths |-> NoFile]
    /\ blobs = [s \in Shas |-> IF s = file_sha256("overcap") THEN "absent" ELSE "whole"]
    /\ blob_writes = [s \in Shas |-> IF s = file_sha256("overcap") THEN 0 ELSE 1]
    /\ artifact_rows =
          {[id |-> <<"i1", 1>>, thread_id |-> "t1", sha256 |-> file_sha256("small"),
            size |-> st_size("small"), tool_call_id |-> "i1"],
           [id |-> <<"i2", 1>>, thread_id |-> "t2", sha256 |-> file_sha256("atcap"),
            size |-> st_size("atcap"), tool_call_id |-> "i2"]}
    /\ ing = [i \in Ingests |-> NoIngest]
    /\ now = 0
    /\ tokens = {}
    /\ dl = NoDownload
    /\ deletes = [d \in Deleters |-> NoDelete]
    /\ NoSessions
    /\ reduced = [token_count |-> <<>>, updates |-> <<>>]
    /\ context = NoContext

\* DELETE and POST requests on thread t1
DelNext ==
    \/ \E d \in Deleters : delete_thread(d, "t1")
    \/ \E d \in Deleters : DeleteAcquire(d)
    \/ \E d \in Deleters : DeleteCommit(d)
    \/ \E r \in Reqs, m \in MsgIds : post_message_stream(r, "t1", m, "user")
    \/ \E r \in Reqs : StartStream(r, TRUE)
    \/ \E r \in Reqs : AcquireLock(r)
    \/ \E r \in Reqs : agent_node(r)
    \/ \E r \in Reqs, content \in Contents : ModelStream(r, content)
    \/ \E r \in Reqs, content \in Contents, wants_tool \in BOOLEAN :
          ModelEnd(r, content, wants_tool)
    \/ \E r \in Reqs, name \in ToolNames : ToolStart(r, name)
    \/ \E r \in Reqs : ToolEnd(r)
    \/ \E r \in Reqs, meta \in UsageMetadata : AgentReturn(r, meta)
    \/ \E r \in Reqs : Persist(r)
    \/ \E r \in Reqs, ok \in BOOLEAN : AutoTitle(r, ok)
    \/ \E r \in Reqs : EmitDone(r)

DelSpec == DelInit /\ [][DelNext]_vars


(***************************************************************************)
(* Session manager (backend/sandbox/session_manager.py)                    *)
(***************************************************************************)

\* an exec is between its first snapshot and its return on session k
Executing(k) == \E c \in Callers : calls[c].op = "exec" /\ calls[c].key = k

\* a stop of session k has been called and has not returned
Stopping(k) == \E c \in Callers : calls[c].op = "stop" /\ calls[c].key = k

\* the container of session k
ContainerOf(k) == CHOOSE ct \in containers : ct.id = sessions[k][1]

\* leaving start or stop: the caller is idle again and keeps what the call
\* returned
Return(c, value) ==
    calls' = [calls EXCEPT ![c] = [NoCall EXCEPT !.returned = <<value>>]]

\* leaving exec with its result
ReturnResult(c, result) ==
    calls' = [calls EXCEPT ![c] = [NoCall EXCEPT !.result = <<result>>]]

\* start(session_key) is called: it asks for the mutex
start(c, k) ==
    /\ calls[c].pc = "idle"
    /\ sess_used.containers < MaxContainers
    /\ calls' = [calls EXCEPT ![c] = [NoCall EXCEPT !.pc = "lock", !.op = "start", !.key = k]]
    /\ UNCHANGED <<outsideSessions, sessions, containers, sm_lock, session_artifacts,
                   handed, sess_used>>

\* stop(session_key) is called, by the owner of the session when no exec runs
stop(c, k) ==
    /\ calls[c].pc = "idle"
    /\ ~Executing(k)
    /\ calls' = [calls EXCEPT ![c] = [NoCall EXCEPT !.pc = "lock", !.op = "stop", !.key = k]]
    /\ UNCHANGED <<outsideSessions, sessions, containers, sm_lock, session_artifacts,
                   handed, sess_used>>

\* mutant of Guard: start and stop go ahead without the mutex
Guard_NoMutex(c) ==
    /\ calls[c].pc = "lock"
    /\ calls' = [calls EXCEPT ![c].pc = "check"]
    /\ UNCHANGED <<outsideSessions, sessions, containers, sm_lock, session_artifacts,
                   handed, sess_used>>

\* start and stop are internally guarded: the call takes the mutex
Guard(c) ==
    /\ calls[c].pc = "lock"
    /\ sm_lock = NoCaller
    /\ sm_lock' = c
    /\ calls' = [calls EXCEPT ![c].pc = "check"]
    /\ UNCHANGED <<outsideSessions, sessions, containers, session_artifacts, handed,
                   sess_used>>

Unguard(c) == sm_lock' = IF sm_lock = c THEN NoCaller ELSE sm_lock

\* start: a healthy container exists and the same key is returned
StartExisting(c) ==
    /\ calls[c].pc = "check"
    /\ calls[c].op = "start"
    /\ sessions[calls[c].key] # <<>>
    /\ Unguard(c)
    /\ Return(c, calls[c].key)
    /\ UNCHANGED <<outsideSessions, sessions, containers, session_artifacts, handed,
                   sess_used>>

\* start: no container in the table, so one is about to be created
StartMissing(c) ==
    /\ calls[c].pc = "check"
    /\ calls[c].op = "start"
    /\ sessions[calls[c].key] = <<>>
    /\ calls' = [calls EXCEPT ![c].pc = "create"]
    /\ UNCHANGED <<outsideSessions, sessions, containers, sm_lock, session_artifacts,
                   handed, sess_used>>

\* start: the container is created and started, with a fresh interpreter,
\* and entered in the table
StartCreate(c) ==
    LET k == calls[c].key
        id == sess_used.containers + 1
    IN  /\ calls[c].pc = "create"
        /\ sess_used.containers < MaxContainers
        /\ containers' = containers \cup {[id |-> id, key |-> k, interp |-> {}]}
        /\ sessions' = [sessions EXCEPT ![k] = <<id>>]
        /\ sess_used' = [sess_used EXCEPT !.containers = id]
        /\ Unguard(c)
        /\ Return(c, k)
        /\ UNCHANGED <<outsideSessions, session_artifacts, handed>>

\* stop: the container is torn down and the key removed from the table
StopTeardown(c) ==
    LET k == calls[c].key
    IN  /\ calls[c].pc = "check"
        /\ calls[c].op = "stop"
        /\ containers' = {ct \in containers : <<ct.id>> # sessions[k]}
        /\ sessions' = [sessions EXCEPT ![k] = <<>>]
        /\ Unguard(c)
        /\ Return(c, "None")
        /\ UNCHANGED <<outsideSessions, session_artifacts, handed, sess_used>>

\* exec, step 1: snapshot of /session/artifacts before the run; exec on one
\* session is serialized by the per-thread lock of the caller
exec(c, k, code) ==
    /\ calls[c].pc = "idle"
    /\ sessions[k] # <<>>
    /\ ~Executing(k)
    /\ ~Stopping(k)
    /\ sess_used.execs < MaxExecs
    /\ sess_used' = [sess_used EXCEPT !.execs = @ + 1]
    /\ calls' = [calls EXCEPT ![c] =
                   [NoCall EXCEPT !.pc = "run", !.op = "exec", !.key = k, !.code = code,
                                  !.seq = sess_used.execs + 1,
                                  !.before = session_artifacts[k]]]
    /\ UNCHANGED <<outsideSessions, sessions, containers, sm_lock, session_artifacts,
                   handed>>

\* how a run of the code ends in an interpreter with these variables
Outcome(code, interp) ==
    CASE code = "sleep" -> "timeout"
      [] code = "print(x)" /\ "x" \notin interp -> "raises"
      [] OTHER -> "ok"

\* the interpreter's variables after the run
Interp(code, interp) == IF code = "x = 42" THEN interp \cup {"x"} ELSE interp

\* mutant of ExecRun: a run that exceeds the timeout takes the container down
ExecRun_TimeoutStops(c) ==
    LET k == calls[c].key
        code == calls[c].code
        ct == ContainerOf(k)
        outcome == Outcome(code, ct.interp)
    IN  /\ calls[c].pc = "run"
        /\ IF outcome = "timeout"
           THEN /\ containers' = containers \ {ct}
                /\ sessions' = [sessions EXCEPT ![k] = <<>>]
           ELSE /\ containers' = (containers \ {ct})
                                   \cup {[ct EXCEPT !.interp = Interp(code, @)]}
                /\ UNCHANGED sessions
        /\ session_artifacts' = [session_artifacts EXCEPT ![k] = @ \cup Writes(code)]
        /\ handed' = [f \in FileNames |->
                        IF f \in Writes(code) \ session_artifacts[k]
                        THEN [handed[f] EXCEPT !.new = @ + 1] ELSE handed[f]]
        /\ calls' = [calls EXCEPT ![c].pc = "after", ![c].outcome = outcome]
        /\ UNCHANGED <<outsideSessions, sm_lock, sess_used>>

\* exec, step 2: the code runs in the session's container under the timeout;
\* the interpreter keeps its state and the container stays up however it ends
ExecRun(c) ==
    LET k == calls[c].key
        code == calls[c].code
        ct == ContainerOf(k)
        outcome == Outcome(code, ct.interp)
    IN  /\ calls[c].pc = "run"
        /\ containers' = (containers \ {ct}) \cup {[ct EXCEPT !.interp = Interp(code, @)]}
        /\ session_artifacts' = [session_artifacts EXCEPT ![k] = @ \cup Writes(code)]
        /\ handed' = [f \in FileNames |->
                        IF f \in Writes(code) \ session_artifacts[k]
                        THEN [handed[f] EXCEPT !.new = @ + 1] ELSE handed[f]]
        /\ calls' = [calls EXCEPT ![c].pc = "after", ![c].outcome = outcome]
        /\ UNCHANGED <<outsideSessions, sessions, sm_lock, sess_used>>

\* the result exec returns
ExecResult(c, new_files) ==
    [ok |-> calls[c].outcome = "ok",
     error |-> CASE calls[c].outcome = "timeout" -> "Execution timed out"
                 [] calls[c].outcome = "raises" -> "NameError: name 'x' is not defined"
                 [] OTHER -> "",
     stdout |-> IF calls[c].code = "print(x)" /\ calls[c].outcome = "ok"
                THEN "42" ELSE "",
     artifacts |-> new_files,
     seq |-> calls[c].seq]

\* mutant of ExecReturn: every file found after the run is taken as new
ExecReturn_NoDiff(c, left) ==
    LET k == calls[c].key
        new_files == session_artifacts[k]
    IN  /\ calls[c].pc = "after"
        /\ left \subseteq new_files
        /\ handed' = [f \in FileNames |->
                        IF f \in new_files
                        THEN [handed[f] EXCEPT !.ingest = @ + 1] ELSE handed[f]]
        /\ session_artifacts' = [session_artifacts EXCEPT ![k] = @ \ (new_files \ left)]
        /\ ReturnResult(c, ExecResult(c, new_files))
        /\ UNCHANGED <<outsideSessions, sessions, containers, sm_lock, sess_used>>

\* exec, steps 3 to 5: snapshot after the run, the set difference is handed
\* to ingest, which moves the files it stores and leaves the others (left),
\* and the result is returned
ExecReturn(c, left) ==
    LET k == calls[c].key
        new_files == session_artifacts[k] \ calls[c].before
    IN  /\ calls[c].pc = "after"
        /\ left \subseteq new_files
        /\ handed' = [f \in FileNames |->
                        IF f \in new_files
                        THEN [handed[f] EXCEPT !.ingest = @ + 1] ELSE handed[f]]
        /\ session_artifacts' = [session_artifacts EXCEPT ![k] = @ \ (new_files \ left)]
        /\ ReturnResult(c, ExecResult(c, new_files))
        /\ UNCHANGED <<outsideSessions, sessions, containers, sm_lock, sess_used>>

\* nothing in the database, no request anywhere, no session
SessInit ==
    /\ Init
    /\ cfg["t1"] = <<[context_window |-> <<>>]>>
    /\ ckpt["t1"].token_count = 0

SessNext ==
    \/ \E c \in Callers, k \in SessionKeys : start(c, k)
    \/ \E c \in Callers, k \in SessionKeys : stop(c, k)
    \/ \E c \in Callers : Guard(c)
    \/ \E c \in Callers : StartExisting(c)
    \/ \E c \in Callers : StartMissing(c)
    \/ \E c \in Callers : StartCreate(c)
    \/ \E c \in Callers : StopTeardown(c)
    \/ \E c \in Callers, k \in SessionKeys, code \in Codes : exec(c, k, code)
    \/ \E c \in Callers : ExecRun(c)
    \/ \E c \in Callers, left \in SUBSET FileNames : ExecReturn(c, left)

SessSpec == SessInit /\ [][SessNext]_vars


(***************************************************************************)
(* The token_count channel of MyState (backend/graph/state.py)             *)
(***************************************************************************)

\* values a node returns for token_count: none, the sentinel, token counts
Updates == {<<>>, <<-1>>, <<0>>, <<1>>, <<2>>}

\* state.py 27: the channel is Annotated[int, update_token_count], so a
\* node's update is folded into the stored value by the reducer
ApplyUpdate(token_used) ==
    /\ Len(reduced.updates) < MaxUpdates
    /\ reduced' =
          [token_count |-> <<update_token_count(reduced.token_count, token_used)>>,
           updates |-> Append(reduced.updates, token_used)]
    /\ UNCHANGED outsideChannel

\* a channel that has no value yet
ChannelInit ==
    /\ Init
    /\ cfg["t1"] = <<[context_window |-> <<>>]>>
    /\ ckpt["t1"].token_count = 0

ChannelNext == \E token_used \in Updates : ApplyUpdate(token_used)

ChannelSpec == ChannelInit /\ [][ChannelNext]_vars


(***************************************************************************)
(* Caller-supplied message ids that look like derived ones                 *)
(***************************************************************************)

\* PostMessageIn.message_id is any string: a plain id, and the string a run
\* derives from it for its assistant row
ClientIds == {"m1", AssistantMessageId("m1")}

\* the application is up and thread t1 has no message
KeyInit ==
    /\ Init
    /\ cfg["t1"] = <<[context_window |-> <<>>]>>
    /\ ckpt["t1"].token_count = 0

\* POST requests on thread t1 with these ids, and their runs
KeyNext ==
    \/ LifespanStartup
    \/ \E r \in Reqs, m \in ClientIds : post_message_stream(r, "t1", m, "user")
    \/ \E r \in Reqs : StartStream(r, TRUE)
    \/ \E r \in Reqs : AcquireLock(r)
    \/ \E r \in Reqs : agent_node(r)
    \/ \E r \in Reqs, content \in Contents : ModelStream(r, content)
    \/ \E r \in Reqs, content \in Contents, wants_tool \in BOOLEAN :
          ModelEnd(r, content, wants_tool)
    \/ \E r \in Reqs, name \in ToolNames : ToolStart(r, name)
    \/ \E r \in Reqs : ToolEnd(r)
    \/ \E r \in Reqs, meta \in UsageMetadata : AgentReturn(r, meta)
    \/ \E r \in Reqs : Persist(r)
    \/ \E r \in Reqs, ok \in BOOLEAN : AutoTitle(r, ok)
    \/ \E r \in Reqs : EmitDone(r)

KeySpec == KeyInit /\ [][KeyNext]_vars


(***************************************************************************)
(* A run whose sandbox tool call ingests the files it wrote                *)
(***************************************************************************)

\* the call of ingest_files made by the sandbox tool call of request r
IngestOf(r) == IF r = "r1" THEN "i1" ELSE "i2"

\* the code of a sandbox tool call writes a file under /session/artifacts
SandboxWrite(r, p, b) ==
    /\ pc[r] = "tool_end"
    /\ run[r].tool = "code_sandbox"
    /\ ing[IngestOf(r)].pc = "idle"
    /\ Stage(p, b)

\* exec step 4: the new files are handed to ingest_files with the request's
\* database session (api.py 576) and the thread of the run
ToolIngest(r, batch) ==
    /\ pc[r] = "tool_end"
    /\ run[r].tool = "code_sandbox"
    /\ ingest_files(IngestOf(r), payload[r].thread_id, batch)

\* api.py 621-679: on_tool_end arrives once the tool has returned
ToolEndAfterIngest(r) ==
    /\ ing[IngestOf(r)].pc \notin {"loop", "flush"}
    /\ ToolEnd(r)

ToolInit ==
    /\ Init
    /\ cfg["t1"] = <<[context_window |-> <<>>]>>
    /\ ckpt["t1"].token_count = 0

ToolNext ==
    \/ LifespanStartup
    \/ \E r \in Reqs, m \in MsgIds : post_message_stream(r, "t1", m, "user")
    \/ \E r \in Reqs : StartStream(r, TRUE)
    \/ \E r \in Reqs : AcquireLock(r)
    \/ \E r \in Reqs : agent_node(r)
    \/ \E r \in Reqs : ModelStream(r, "Hi")
    \/ \E r \in Reqs, content \in Contents, wants_tool \in BOOLEAN :
          ModelEnd(r, content, wants_tool)
    \/ \E r \in Reqs : ModelFailure(r)
    \/ \E r \in Reqs : ToolStart(r, "code_sandbox")
    \/ \E r \in Reqs, p \in Paths, b \in Bytes : SandboxWrite(r, p, b)
    \/ \E r \in Reqs, batch \in Batches : ToolIngest(r, batch)
    \/ \E i \in Ingests : SkipTooLarge(i)
    \/ \E i \in Ingests, completes \in BOOLEAN : upsert_artifact(i, completes)
    \/ \E i \in Ingests : create_artifact(i)
    \/ \E i \in Ingests : IngestCommit(i)
    \/ \E r \in Reqs : ToolEndAfterIngest(r)
    \/ \E r \in Reqs, meta \in UsageMetadata : AgentReturn(r, meta)
    \/ \E r \in Reqs : Persist(r)
    \/ \E r \in Reqs : AutoTitle(r, TRUE)
    \/ \E r \in Reqs : EmitDone(r)

ToolSpec == ToolInit /\ [][ToolNext]_vars


(***************************************************************************)
(* Progress of the requests of one thread                                  *)
(***************************************************************************)

\* the steps event_stream of request r takes by itself once the response has
\* started: the model and the tools return, the database answers
RunStep(r) ==
    \/ StartStream(r, TRUE)
    \/ AcquireLock(r)
    \/ agent_node(r)
    \/ \E content \in Contents, wants_tool \in BOOLEAN : ModelEnd(r, content, wants_tool)
    \/ ModelFailure(r)
    \/ \E name \in ToolNames : ToolStart(r, name)
    \/ ToolEnd(r)
    \/ \E meta \in UsageMetadata : AgentReturn(r, meta)
    \/ Persist(r)
    \/ \E ok \in BOOLEAN : AutoTitle(r, ok)
    \/ EmitDone(r)

\* the steps a DELETE takes by itself once the handler has been entered
DeleteStep(d) == DeleteAcquire(d) \/ DeleteCommit(d)

\* POST and DELETE requests on thread t1; clients may go away
LiveNext ==
    \/ \E r \in Reqs, m \in MsgIds : post_message_stream(r, "t1", m, "user")
    \/ \E d \in Deleters : delete_thread(d, "t1")
    \/ \E r \in Reqs : RunStep(r)
    \/ \E d \in Deleters : DeleteStep(d)
    \/ \E r \in Reqs : ClientDisconnect(r)

\* the event loop runs every task that can go on; a lock that is free is
\* handed to a waiter (asyncio.Lock wakes its waiters in order)
Fairness ==
    /\ \A r \in Reqs : WF_vars(RunStep(r))
    /\ \A d \in Deleters : WF_vars(DeleteStep(d))

LiveSpec == DelInit /\ [][LiveNext]_vars /\ Fairness


(***************************************************************************)
(* The ambient context of the tools (backend/graph/context.py)             *)
(***************************************************************************)

\* api.py 577: set_thread_id stores the thread id of the run for the tools
set_thread_id(t) == [thread_id |-> t]

\* get_thread_id reads what set_thread_id stored last
get_thread_id == context.thread_id

\* tools.py 69-72: the session key of a sandbox tool call
get_session_key ==
    LET tid == get_thread_id
    IN  IF Truthy(tid) THEN tid ELSE "default"

\* api.py 572-586: async with lock, the context of the tools is set, and
\* the graph run starts
EnterLockedBlock(r) ==
    LET t == payload[r].thread_id
    IN  /\ pc[r] = "lock"
        /\ locks[get_thread_lock(t)] = NoReq
        /\ locks' = [locks EXCEPT ![get_thread_lock(t)] = r]
        /\ context' = set_thread_id(t)
        /\ ckpt' = [ckpt EXCEPT ![t].messages = Append(@, <<r, "user">>)]
        /\ pc' = [pc EXCEPT ![r] = "agent_node"]
        /\ run' = [run EXCEPT ![r] = NoRun]
        /\ UNCHANGED <<artVars, dlVars, deletes, sessVars, reduced, checkpointer_cm, dbVars,
                       payload, frames, localVars, used>>

\* api.py 616-618: on_tool_start; the tool resolves its session key when it
\* is called
SandboxToolStart(r) ==
    /\ pc[r] = "tool_start"
    /\ Yield(r, <<ToolStartFrame("code_sandbox")>>)
    /\ run' = [run EXCEPT ![r].tool = "code_sandbox", ![r].session_key = get_session_key]
    /\ used' = [used EXCEPT !.tools = @ + 1]
    /\ pc' = [pc EXCEPT ![r] = "tool_end"]
    /\ UNCHANGED <<outsideStream, checkpointer_cm, dbVars, locks, ckpt, payload, localVars>>

\* the application is up; requests arrive for both threads
ContextNext ==
    \/ \E r \in Reqs : \E t \in ThreadIds, m \in MsgIds : post_message_stream(r, t, m, "user")
    \/ \E r \in Reqs : StartStream(r, TRUE)
    \/ \E r \in Reqs : EnterLockedBlock(r)
    \/ \E r \in Reqs : agent_node(r)
    \/ \E r \in Reqs, content \in Contents, wants_tool \in BOOLEAN :
          ModelEnd(r, content, wants_tool)
    \/ \E r \in Reqs : ModelFailure(r)
    \/ \E r \in Reqs : SandboxToolStart(r)
    \/ \E r \in Reqs : ToolEnd(r)
    \/ \E r \in Reqs, meta \in UsageMetadata : AgentReturn(r, meta)
    \/ \E r \in Reqs : Persist(r)
    \/ \E r \in Reqs : AutoTitle(r, TRUE)
    \/ \E r \in Reqs : EmitDone(r)

ContextSpec == DelInit /\ [][ContextNext]_vars


(***************************************************************************)
(* Properties of the streaming orchestrator                                *)
(***************************************************************************)

HasType(f, ty) == "type" \in DOMAIN f /\ f.type = ty

\* the frames of r that have type ty, as positions
FramesOfType(r, ty) == {i \in DOMAIN frames[r] : HasType(frames[r][i], ty)}

LastFrame(r) == frames[r][Len(frames[r])]

\* the tool and assistant rows written by the body of request r
DerivedRows(r) == {x \in message_rows : x.id[1] = r /\ x.role # "user"}

\* C1: for every thread, at most one request is inside the locked block of
\* event_stream (driving the agent graph, persisting, titling) at any instant
C1_OneRunPerThread ==
    \A r1 \in Reqs, r2 \in Reqs :
        (r1 # r2 /\ pc[r1] \in InLockPcs /\ pc[r2] \in InLockPcs)
            => payload[r1].thread_id # payload[r2].thread_id

\* a run of a thread is driving the graph while another accepted request of
\* the same thread waits for the lock
C1_Witness ==
    \E r1 \in Reqs, r2 \in Reqs :
        /\ r1 # r2
        /\ payload[r1].thread_id = payload[r2].thread_id
        /\ pc[r1] \in GraphPcs
        /\ pc[r2] = "lock"

\* C2: in every reachable state no two Message rows share (thread, message_id),
\* user rows and derived tool/assistant rows alike
C2_UniqueMessageKey ==
    \A x \in message_rows, y \in message_rows :
        (x.thread_id = y.thread_id /\ x.message_id = y.message_id) => x = y

\* a duplicate POST was answered 409 after a turn with a tool row and an
\* assistant row was persisted
C2_Witness ==
    /\ \E r \in Reqs : pc[r] = "r409"
    /\ \E x \in message_rows : x.role = "tool"
    /\ \E x \in message_rows : x.role = "assistant"

\* C3: a POST whose (thread, message_id) is already stored is answered 409 and
\* changes nothing: no row, no lock, no frame, no conversation state; the
\* request never opens a stream afterwards
C3_DuplicateChangesNothing ==
    [][\A r \in Reqs :
          /\ ( /\ pc[r] = "idle"
               /\ pc'[r] # "idle"
               /\ payload'[r].role = "user"
               /\ \E x \in message_rows :
                     /\ x.thread_id = payload'[r].thread_id
                     /\ x.message_id = payload'[r].message_id )
             => ( /\ pc'[r] = "r409"
                  /\ message_rows' = message_rows
                  /\ locks' = locks
                  /\ frames' = frames
                  /\ ckpt' = ckpt
                  /\ title' = title )
          /\ pc[r] = "r409" => (pc'[r] = "r409" /\ frames'[r] = <<>>)]_vars

\* a duplicate was rejected while the first call's run held the lock
C3_Witness ==
    \E r \in Reqs, q \in Reqs :
        /\ pc[r] = "r409"
        /\ pc[q] \in InLockPcs
        /\ payload[q].thread_id = payload[r].thread_id
        /\ payload[q].message_id = payload[r].message_id

\* C4: when a model call raises during streaming, the stream ends with an
\* error frame and no tool or assistant row of that run is stored, however
\* many tool calls had ended before
C4_ModelFailurePersistsNothing ==
    \A r \in Reqs :
        (\E i \in FramesOfType(r, "error") : frames[r][i].error = "model error")
            => /\ HasType(LastFrame(r), "error")
               /\ DerivedRows(r) = {}

\* the model raised after a tool call of the run had ended
C4_Witness ==
    \E r \in Reqs :
        /\ pc[r] = "ended"
        /\ FramesOfType(r, "tool_end") # {}
        /\ \E i \in FramesOfType(r, "error") : frames[r][i].error = "model error"

\* C5 (as claimed): a stream whose client went away mid-stream still has its
\* assistant row, and a row for each tool call that ended, persisted
C5_DisconnectStillPersists ==
    \A r \in Reqs :
        (pc[r] = "closed" /\ frames[r] # <<>>)
            => /\ \E x \in DerivedRows(r) : x.role = "assistant"
               /\ Cardinality({x \in DerivedRows(r) : x.role = "tool"})
                      = Cardinality(FramesOfType(r, "tool_end"))

\* C6 (as claimed, for the runs whose model gave a final text): a run that
\* ends with done after n tool calls has stored n tool rows keyed tool:M:0 ..
\* tool:M:n-1, each with its tool-call id in metadata, and one assistant row
\* keyed assistant:M
C6_TurnRowsPersisted ==
    \A r \in Reqs :
        (frames[r] # <<>> /\ HasType(LastFrame(r), "done")
                          /\ LastFrame(r).message_id # <<>>)
            => LET n == Cardinality(FramesOfType(r, "tool_end"))
                   t == payload[r].thread_id
                   M == payload[r].message_id
               IN  /\ Cardinality({x \in DerivedRows(r) : x.role = "tool"}) = n
                   /\ \A i \in 0..(n - 1) :
                         \E x \in DerivedRows(r) :
                            /\ x.role = "tool"
                            /\ x.thread_id = t
                            /\ x.message_id = "tool:" \o M \o ":" \o ToString(i)
                            /\ x.meta # "None"
                   /\ Cardinality({x \in DerivedRows(r) : x.role = "assistant"}) = 1
                   /\ \A x \in DerivedRows(r) :
                         x.role = "assistant" =>
                            (x.thread_id = t /\ x.message_id = "assistant:" \o M)

FrameTypes == {"context_update", "token", "tool_start", "tool_end", "summarizing",
               "title_updated", "done", "error"}

\* C7 (as claimed): every frame written to an SSE body has a type field with
\* one of the eight protocol values
C7_EveryFrameTyped ==
    \A r \in Reqs : \A i \in DOMAIN frames[r] :
        "type" \in DOMAIN frames[r][i] /\ frames[r][i].type \in FrameTypes

\* C8 (as claimed): no exception propagates out of the SSE body
C8_NothingEscapesBody == \A r \in Reqs : pc[r] # "raised"

\* C9 (as claimed): before the agent is driven the stream has emitted a
\* context_update frame, ahead of every other frame of the run
C9_ContextUpdateFirst ==
    \A r \in Reqs :
        pc[r] \in InLockPcs
            => /\ frames[r] # <<>>
               /\ HasType(frames[r][1], "context_update")
               /\ frames[r][1].max_tokens = max_tokens(payload[r].thread_id)

\* the context window the claim names: the thread's override if set, else the
\* process default
ClaimedWindow(t) ==
    IF cfg[t] # <<>> /\ cfg[t][1].context_window # <<>>
    THEN cfg[t][1].context_window[1]
    ELSE 30000

\* C10: a run is in the summarize node exactly when the stored token_count had
\* reached 0.9 x the effective context window on entry to the agent node, and
\* in the model call otherwise (27000 of 30000 summarizes, 26999 does not)
C10_SummarizeAtThreshold ==
    \A r \in Reqs :
        LET t == payload[r].thread_id
        IN  /\ pc[r] \in {"summarize", "summ_stream", "summ_return"}
                => 10 * ckpt[t].token_count >= 9 * ClaimedWindow(t)
            /\ pc[r] \in {"model", "tool_start", "tool_end", "agent_return"}
                => 10 * ckpt[t].token_count < 9 * ClaimedWindow(t)

\* a run entered the summarize node with token_count = 27000 against the
\* default window of 30000
C10_Witness ==
    \E r \in Reqs :
        /\ pc[r] = "summarize"
        /\ ckpt[payload[r].thread_id].token_count = 27000
        /\ ClaimedWindow(payload[r].thread_id) = 30000

(***************************************************************************)
(* Properties of summarization and of the token count                      *)
(***************************************************************************)

\* the summarizing frames of r with the given status, as positions
Summarizing(r, st) ==
    {i \in FramesOfType(r, "summarizing") : frames[r][i].status = st}

\* C11 (as claimed): in a run that summarizes the frames come in the order
\* summarizing{start}, summarizing{done}, then at once
\* context_update{tokens_used: 0, max_tokens: the effective window}, and only
\* then token frames; nothing the summarizer streams becomes a token frame
C11_SummarizeFrameOrder ==
    \A r \in Reqs :
        LET f == frames[r]
            t == payload[r].thread_id
        IN  /\ \A i \in Summarizing(r, "done") :
                  /\ \E j \in Summarizing(r, "start") : j < i
                  /\ i < Len(f)
                  /\ HasType(f[i + 1], "context_update")
                  /\ f[i + 1].tokens_used = 0
                  /\ f[i + 1].max_tokens = ClaimedWindow(t)
            /\ \A k \in FramesOfType(r, "token") :
                  \A i \in FramesOfType(r, "summarizing") : i < k
            /\ pc[r] \in {"summ_stream", "summ_return"}
                  => FramesOfType(r, "token") = {}

\* the summarize node of r completes in this step
SummarizeCompletes(r) == pc[r] = "summ_return" /\ pc'[r] = "agent_node"

\* C12 (as claimed): when the summarize node completes, token_count is 0
\* whatever it was, and summary is an output of the summarizer and is a
\* non-empty string
C12_SummarizeResetsCount ==
    [][\A r \in Reqs :
          SummarizeCompletes(r) =>
              LET after == ckpt'[payload[r].thread_id]
              IN  /\ after.token_count = 0
                  /\ after.summary \in SummaryTexts
                  /\ after.summary # ""]_vars

\* C13: when the summarize node completes, the message list is the last 4
\* messages it held before (all of them when it held fewer), in the same order
C13_LastFourKept ==
    [][\A r \in Reqs :
          SummarizeCompletes(r) =>
              LET before == ckpt[payload[r].thread_id].messages
                  after == ckpt'[payload[r].thread_id].messages
                  n == IF Len(before) < 4 THEN Len(before) ELSE 4
              IN  /\ Len(after) = n
                  /\ \A i \in 1..n : after[i] = before[Len(before) - n + i]]_vars

\* a summarization pruned a log of 7 messages (two earlier turns, the first
\* request's turn and the second request's user message) to the last 4
C13_Witness ==
    \E r \in Reqs :
        /\ pc[r] = "agent_node"
        /\ run[r].steps > 0
        /\ ckpt[payload[r].thread_id].messages =
               <<<<"h2", "assistant">>, <<"r1", "user">>, <<"r1", "assistant">>,
                 <<"r2", "user">>>>

\* C14 (as claimed): the token_count checkpointed when a run's agent node
\* returns equals the input_tokens reading of that run's final model call
C14_CountIsLastReading ==
    [][\A r \in Reqs :
          (pc[r] = "agent_return" /\ pc'[r] = "persist") =>
              \E meta \in UsageMetadata :
                  ckpt'[payload[r].thread_id].token_count = input_tokens(meta)]_vars

(***************************************************************************)
(* Properties of the artifact registry                                     *)
(***************************************************************************)

\* the call has returned or raised
Ended(i) == ing[i].pc \in {"returned", "raised"}

\* the committed Artifact rows with the fingerprint of b
RowsFor(b) == {a \in artifact_rows : a.sha256 = file_sha256(b)}

\* the files with contents b whose row a call inserted and committed, or
\* tried to insert when it raised (a call that raised stopped at file idx)
IngestedFor(b) ==
    {c \in Ingests \X (1..Cardinality(Paths)) :
        LET i == c[1]
            k == c[2]
        IN  /\ Ended(i)
            /\ k \in DOMAIN ing[i].new_paths
            /\ ing[i].new_paths[k].bytes = b
            /\ ~TooLarge(st_size(b))
            /\ \/ ing[i].pc = "returned"
               \/ k = ing[i].idx /\ ing[i].error = "IntegrityError"}

\* C15 (as claimed): once the calls have ended, the blob of contents B exists
\* and was written once, and there are as many Artifact rows for B as there
\* were ingests of a file holding B
C15_RowPerIngestOneBlob ==
    (\A i \in Ingests : ing[i].pc \in {"idle", "returned", "raised"}) =>
        \A b \in Bytes :
            /\ Cardinality(RowsFor(b)) = Cardinality(IngestedFor(b))
            /\ IngestedFor(b) # {} => /\ blobs[file_sha256(b)] # "absent"
                                      /\ blob_writes[file_sha256(b)] = 1

\* no two committed Artifact rows have the same sha256
UniqueSha256 ==
    \A a1, a2 \in artifact_rows : a1.sha256 = a2.sha256 => a1 = a2

C17_SameFileSameArtifact ==
    \A i, j \in Ingests :
        (/\ i # j
         /\ Ended(i) /\ Ended(j)
         /\ Len(ing[i].new_paths) = 1
         /\ ing[i].new_paths = ing[j].new_paths
         /\ ~TooLarge(st_size(ing[i].new_paths[1].bytes))
         /\ ing[i].error # "OSError" /\ ing[j].error # "OSError")
            => /\ Len(ing[i].descriptors) = 1
               /\ Len(ing[j].descriptors) = 1
               /\ ing[i].descriptors[1].id = ing[j].descriptors[1].id
               /\ ing[i].descriptors[1].sha256 = ing[j].descriptors[1].sha256

\* C18 (as claimed): the blob of every committed Artifact row exists and
\* holds the whole contents, so its SHA-256 is the row's sha256 and its
\* length the row's size
C18_BlobMatchesRow ==
    \A a \in artifact_rows : blobs[a.sha256] = "whole"

\* C19 (as claimed): at no instant does a destination path exist with only
\* part of the contents
C19_PutAtomic ==
    \A s \in Shas : blobs[s] # "partial"

\* C20: a file one byte over the cap gets a descriptor with id null and an
\* error, and neither a blob nor a row; a file of exactly the cap (or
\* smaller) gets a descriptor with an id; and a call that returns has gone
\* through every file of its batch, with a committed row for each accepted one
C20_SizeCap ==
    /\ blobs[file_sha256("overcap")] = "absent"
    /\ \A i \in Ingests :
          /\ \A a \in artifact_rows \cup ing[i].added : a.sha256 # file_sha256("overcap")
          /\ \A k \in DOMAIN ing[i].descriptors :
                LET d == ing[i].descriptors[k]
                    f == ing[i].new_paths[k]
                IN  IF f.bytes = "overcap"
                    THEN d.id = <<>> /\ d.error # "None" /\ d.sha256 = "None"
                    ELSE d.id # <<>> /\ d.error = "None" /\ d.size = st_size(f.bytes)
          /\ ing[i].pc = "returned" =>
                /\ Len(ing[i].descriptors) = Len(ing[i].new_paths)
                /\ \A k \in DOMAIN ing[i].descriptors :
                      ing[i].descriptors[k].id # <<>> =>
                          \E a \in artifact_rows :
                              /\ a.id = ing[i].descriptors[k].id[1]
                              /\ a.sha256 = file_sha256(ing[i].new_paths[k].bytes)

\* a call returned for a batch of a file one byte over the cap followed by a
\* file of exactly the cap: the first was refused, the second has its row
C20_Witness ==
    \E i \in Ingests :
        /\ ing[i].pc = "returned"
        /\ Len(ing[i].new_paths) = 2
        /\ ing[i].new_paths[1].bytes = "overcap"
        /\ ing[i].new_paths[2].bytes = "atcap"
        /\ ing[i].descriptors[1].id = <<>>
        /\ \E a \in artifact_rows :
              /\ <<a.id>> = ing[i].descriptors[2].id
              /\ a.size = 50 * 1024 * 1024
        /\ blobs[file_sha256("atcap")] = "whole"


(***************************************************************************)
(* Properties of the download endpoints and the token service              *)
(***************************************************************************)

Answered == dl.pc = "done"

Response == dl.response[1]

Presented == dl.token[1]

\* the presented token was signed by the service and had not expired when
\* the request was handled
PresentedVerifies ==
    /\ Presented \in Signed
    /\ \E e \in tokens : e.token = Presented /\ dl.at - e.iat <= ARTIFACTS_TOKEN_TTL_SECONDS

\* C21: both endpoints answer with bytes or metadata only when the token
\* verifies and names the path id, and then with those of the artifact the
\* path names; a verifying token for another id is answered 403
C21_TokenBoundToPath ==
    Answered =>
        /\ Response.status = 200 =>
              /\ PresentedVerifies
              /\ \E e \in tokens : e.token = Presented /\ e.for = dl.artifact_id
              /\ Response.of = uuid_UUID(dl.artifact_id)
        /\ (PresentedVerifies /\ \A e \in tokens : e.token = Presented => e.for # dl.artifact_id)
              => Response.status = 403 /\ Response.of = <<>> /\ Response.content = "none"

\* a verifying token of one existing artifact was presented on the path of
\* the other one, at the metadata endpoint
C21_Witness ==
    /\ Answered
    /\ dl.endpoint = "head"
    /\ PresentedVerifies
    /\ Presented.artifact_id = "u1"
    /\ dl.artifact_id = "u2"
    /\ Response.status = 403

\* the outcome the first failing check of a download decides
FirstFailingCheck ==
    IF ~PresentedVerifies THEN 401
    ELSE IF \A e \in tokens : e.token = Presented => e.for # dl.artifact_id THEN 403
    ELSE IF dl.artifact_id = "zz" THEN 400
    ELSE IF \A a \in artifact_rows : <<a.id>> # uuid_UUID(dl.artifact_id) THEN 404
    ELSE IF \E a \in artifact_rows :
               a.id = uuid_UUID(dl.artifact_id)[1] /\ blobs[a.sha256] = "absent"
    THEN 410
    ELSE 200

\* C22: a download ends in the outcome of the first failing check, in the
\* order token, mismatch, malformed id, no row, blob missing; bytes are sent
\* only when none fails, and never for a row whose blob is absent
C22_FirstFailingCheckDecides ==
    (Answered /\ dl.endpoint = "download") =>
        /\ Response.status = FirstFailingCheck
        /\ Response.status = 200 <=> Response.content \notin {"none", "absent"}

\* a download of an existing row whose blob is gone was answered 410
C22_Witness ==
    /\ Answered
    /\ dl.endpoint = "download"
    /\ \E a \in artifact_rows : <<a.id>> = uuid_UUID(dl.artifact_id) /\ blobs[a.sha256] = "absent"
    /\ Response.status = 410

C24_ValidationOrder ==
    [][\A r \in Reqs :
          /\ (pc[r] = "idle" /\ pc'[r] # "idle") =>
                /\ pc'[r] =
                      IF payload'[r].role # "user" THEN "r400"
                      ELSE IF payload'[r].thread_id \notin threads THEN "r404"
                      ELSE IF \E x \in message_rows :
                                 /\ x.thread_id = payload'[r].thread_id
                                 /\ x.message_id = payload'[r].message_id
                      THEN "r409"
                      ELSE "stream_open"
                /\ pc'[r] \in {"r400", "r404"} =>
                      /\ message_rows' = message_rows
                      /\ frames' = frames
                      /\ locks' = locks
                      /\ run' = run
                      /\ ckpt' = ckpt
          /\ pc[r] \in {"r400", "r404"} =>
                /\ pc'[r] = pc[r]
                /\ frames'[r] = <<>>
                /\ run'[r] = NoRun
                /\ \A t \in ThreadIds : locks'[t] # r
                /\ \A x \in message_rows' : x.id[1] # r]_vars

\* an assistant-role request to a thread that does not exist was answered
\* 400, and a user-role request to it 404
C24_Witness ==
    \E r \in Reqs, q \in Reqs :
        /\ pc[r] = "r400"
        /\ payload[r].thread_id = MissingThread
        /\ pc[q] = "r404"



(***************************************************************************)
(* Properties of the auto-title step                                       *)
(***************************************************************************)

\* C27: the title is written only over the placeholder "New chat"; a title
\* step that writes none yields no frame, leaves the Message rows and the
\* title as they are, and the next frame of the stream is the done frame
C27_AutoTitleBestEffort ==
    [][\A r \in Reqs :
          /\ (pc[r] = "title" /\ pc'[r] \notin {"title", "closed"}) =>
                /\ pc'[r] = "done_frame"
                /\ message_rows' = message_rows
                /\ FramesOfType(r, "error") = {}
                /\ IF title' # title
                   THEN /\ title[payload[r].thread_id] = "New chat"
                        /\ frames'[r] = frames[r] \o <<TitleUpdatedFrame(title'[payload[r].thread_id])>>
                   ELSE frames' = frames
          /\ (pc[r] = "done_frame" /\ pc'[r] \notin {"done_frame", "closed"}) =>
                /\ pc'[r] = "ended"
                /\ frames'[r] = frames[r] \o <<DoneFrame(a_msg_id[r])>>
                /\ message_rows' = message_rows
                /\ title' = title]_vars

\* a run stored its assistant row, its title step failed on the placeholder
\* title, and the stream ended with the done frame
C27_Witness ==
    \E r \in Reqs :
        /\ pc[r] = "ended"
        /\ \E x \in message_rows : x.id = <<r, "assistant", 0>>
        /\ title[payload[r].thread_id] = "New chat"
        /\ FramesOfType(r, "error") = {}
        /\ FramesOfType(r, "title_updated") = {}
        /\ HasType(LastFrame(r), "done")
        /\ LastFrame(r).message_id # <<>>



(***************************************************************************)
(* Properties of thread deletion                                           *)
(***************************************************************************)

\* C25: a thread is not deleted while a run of it is inside the lock, and
\* once it is deleted no request is inside the lock driving a run for it and
\* no Message row of it is stored, whatever the request had done before
C25_DeleteExcludesRuns ==
    /\ \A r \in Reqs : pc[r] \in InLockPcs => payload[r].thread_id \in threads
    /\ \A x \in message_rows : x.thread_id \in threads



\* C26: when a DELETE is answered, no Message row and no Artifact row of its
\* thread is left, the rows of other threads are kept, and every blob is as
\* it was; the DELETE of a thread that does not exist changes nothing in the
\* database and is answered 204 all the same
C26_DeleteCascadesKeepsBlobs ==
    [][\A d \in Deleters :
          (deletes[d].pc = "locked" /\ deletes'[d].pc = "done") =>
              LET t == deletes[d].thread_id
              IN  /\ deletes'[d].status = "204"
                  /\ blobs' = blobs
                  /\ t \notin threads'
                  /\ IF t \in threads
                     THEN /\ message_rows' = {x \in message_rows : x.thread_id # t}
                          /\ artifact_rows' = {a \in artifact_rows : a.thread_id # t}
                     ELSE /\ threads' = threads
                          /\ message_rows' = message_rows
                          /\ artifact_rows' = artifact_rows
                          /\ cfg' = cfg
                          /\ title' = title]_vars

\* a thread with a finished turn and the only row of a blob was deleted, a
\* second DELETE of it was answered 204, and the blob is still on the disk
C26_Witness ==
    /\ \A d \in Deleters : deletes[d].pc = "done" /\ deletes[d].status = "204"
    /\ "t1" \notin threads
    /\ \E r \in Reqs :
          /\ payload[r].thread_id = "t1"
          /\ pc[r] = "ended"
          /\ HasType(LastFrame(r), "done")
          /\ LastFrame(r).message_id # <<>>
    /\ message_rows = {}
    /\ \A a \in artifact_rows : a.sha256 # file_sha256("small")
    /\ blobs[file_sha256("small")] = "whole"



(***************************************************************************)
(* Properties of the session manager                                       *)
(***************************************************************************)

ContainersOf(k) == {ct \in containers : ct.key = k}

\* C28: a session key never has more than one container, however the start
\* calls interleave; a start returns its key and creates nothing when the key
\* has a container; when a stop returns the key is out of the table and its
\* container is gone; a container made after that is a new one with a fresh
\* interpreter
C28_OneContainerPerKey ==
    /\ [](\A k \in SessionKeys :
            /\ Cardinality(ContainersOf(k)) <= 1
            /\ sessions[k] # <<>> => \E ct \in ContainersOf(k) : <<ct.id>> = sessions[k])
    /\ [][\A c \in Callers :
            /\ (calls[c].op = "start" /\ calls'[c].pc = "idle") =>
                  /\ calls'[c].returned = <<calls[c].key>>
                  /\ sessions'[calls[c].key] # <<>>
                  /\ sessions[calls[c].key] # <<>> => containers' = containers
            /\ (calls[c].op = "stop" /\ calls'[c].pc = "idle") =>
                  /\ sessions'[calls[c].key] = <<>>
                  /\ \A ct \in containers' : ct.key # calls[c].key
            /\ \A ct \in containers' :
                  (\A old \in containers : old.id # ct.id) =>
                      /\ ct.interp = {}
                      /\ ct.id > sess_used.containers]_vars

\* both callers got the key back from start, the first container was stopped
\* and the key has its second container and no other
C28_Witness ==
    /\ \A c \in Callers : calls[c].pc = "idle" /\ calls[c].returned = <<"k1">>
    /\ sess_used.containers = 2
    /\ sessions["k1"] = <<2>>
    /\ Cardinality(containers) = 1

\* C29: a file is handed to ingest once for each time a run made it new in
\* /session/artifacts: never more often, and exactly as often once no exec
\* is under way; the artifacts an exec returns are the files that are there
\* after the run and were not there before it
C29_NewFilesOnly ==
    /\ [](\A f \in FileNames :
            /\ handed[f].ingest <= handed[f].new
            /\ (\A k \in SessionKeys : ~Executing(k)) => handed[f].ingest = handed[f].new)
    /\ [][\A c \in Callers :
            (calls[c].pc = "after" /\ calls'[c].pc = "idle") =>
                /\ calls'[c].result[1].artifacts =
                      {f \in FileNames : /\ f \in session_artifacts[calls[c].key]
                                         /\ f \notin calls[c].before}
                /\ \A f \in FileNames :
                      handed'[f].ingest = handed[f].ingest
                         + (IF f \in calls'[c].result[1].artifacts THEN 1 ELSE 0)]_vars

\* the second exec wrote f1 again and f2 while f1 of the first exec was
\* still in the directory, and returned f2 alone
C29_Witness ==
    \E c \in Callers :
        /\ calls[c].pc = "idle"
        /\ calls[c].result # <<>>
        /\ calls[c].result[1].seq = 2
        /\ calls[c].result[1].artifacts = {"f2"}
        /\ handed["f1"] = [ingest |-> 1, new |-> 1]
        /\ "f1" \in session_artifacts["k1"]

RECURSIVE SumSinceReset(_)
\* the sum of the updates after the last sentinel, a missing update being 0
SumSinceReset(us) ==
    IF us = <<>> THEN 0
    ELSE LET u == us[Len(us)]
         IN  IF u = <<-1>> THEN 0
             ELSE (IF u = <<>> THEN 0 ELSE u[1]) + SumSinceReset(SubSeq(us, 1, Len(us) - 1))

\* C31: after every sequence of updates the stored token_count is the sum of
\* the updates applied since the last -1, or since the start, a missing
\* update counting 0; it is never negative
C31_CountIsSumSinceReset ==
    reduced.updates # <<>> =>
        /\ reduced.token_count = <<SumSinceReset(reduced.updates)>>
        /\ reduced.token_count[1] >= 0

\* counts were added, the sentinel reset them, and counts were added again
C31_Witness ==
    /\ Len(reduced.updates) = 4
    /\ reduced.updates[1] = <<2>>
    /\ reduced.updates[2] = <<-1>>
    /\ reduced.updates[3] = <<>>
    /\ reduced.updates[4] = <<1>>
    /\ reduced.token_count = <<1>>



(***************************************************************************)
(* Properties of the agent graph's routing                                 *)
(***************************************************************************)

\* C32: a run goes through the summarize node at most once: the agent node
\* that is entered again after a summarization, with token_count reset to 0,
\* takes the model branch, whatever context window the thread has
C32_SummarizeOnce ==
    [][\A r \in Reqs :
          ( /\ pc[r] = "agent_node"
            /\ FramesOfType(r, "summarizing") # {}
            /\ pc'[r] \notin {"agent_node", "closed"} )
              => pc'[r] = "model"]_vars


\* C33: the max_tokens of every context_update frame of a run is the context
\* window the agent node of that run compares token_count with
C33_MaxTokensIsEffectiveWindow ==
    \A r \in Reqs : \A i \in FramesOfType(r, "context_update") :
        frames[r][i].max_tokens
            = effective_context_window(CfgContextWindow(payload[r].thread_id))



(***************************************************************************)
(* Properties of the post-stream persistence                               *)
(***************************************************************************)

\* C34: the rows a run is about to persist never have the (thread,
\* message_id) key of a stored row, so the commit does not fail on the
\* uniqueness constraint and no stream ends with that error
C34_DerivedKeysAreFree ==
    \A r \in Reqs :
        /\ (pc[r] = "persist" /\ Commits(r)) => ~UniqueViolation(message_rows, TurnRows(r))
        /\ \A i \in FramesOfType(r, "error") : frames[r][i].error # "IntegrityError"



\* C35: a staged file is removed only if its Artifact row ends up committed:
\* once a call of ingest_files has ended, by returning or by raising, every
\* file of its batch that is gone from staging has its row in the store
C35_RemovedOnlyIfCommitted ==
    \A i \in Ingests :
        ing[i].pc \in {"raised", "returned"}
            => \A k \in DOMAIN ing[i].new_paths :
                   staging[ing[i].new_paths[k].path] = NoFile
                       => \E a \in artifact_rows : a.id = <<i, k>>


\* C36: a run that ended with an error frame has left no Artifact row of its
\* tool call behind without a persisted tool Message row of the same thread
\* that carries the tool call id
EndedWithError(r) ==
    /\ pc[r] = "ended"
    /\ frames[r] # <<>>
    /\ HasType(LastFrame(r), "error")

C36_ErrorRunLeavesNoArtifact ==
    \A r \in Reqs :
        EndedWithError(r)
            => \A a \in artifact_rows :
                   a.tool_call_id = IngestOf(r)
                       => \E x \in message_rows :
                              /\ x.id[1] = r
                              /\ x.role = "tool"
                              /\ x.thread_id = a.thread_id
                              /\ x.meta # "None"


\* C37: the lock of a thread is only ever held by a request that is inside
\* its locked block, so it is free once the run has ended by done, by an
\* error frame or by a disconnect; and an accepted POST that waits for the
\* lock eventually holds it and runs, unless its client goes away
C37_LockReleasedThenAcquired ==
    /\ [](\A t \in ThreadIds :
            /\ locks[t] \in Reqs => pc[locks[t]] \in InLockPcs
            /\ locks[t] \in Deleters => deletes[locks[t]].pc = "locked")
    /\ \A r \in Reqs :
          (pc[r] \in BeforeLockPcs) ~> (pc[r] \in InLockPcs \/ pc[r] = "closed")

\* the first run ended with an error frame and the request that waited
\* behind it holds the lock
C37_Witness ==
    /\ pc["r1"] = "ended"
    /\ frames["r1"] # <<>>
    /\ HasType(LastFrame("r1"), "error")
    /\ ckpt["t1"].messages # <<>>
    /\ ckpt["t1"].messages[1] = <<"r1", "user">>
    /\ locks["t1"] = "r2"
    /\ pc["r2"] \in InLockPcs


\* C38: a stream that ended holds exactly one terminal frame, done or error,
\* and it is its last frame; a done frame names the persisted assistant row
\* of the request, or null when no assistant row was written
TerminalFrames(r) == FramesOfType(r, "done") \cup FramesOfType(r, "error")

C38_OneTerminalFrameLast ==
    \A r \in Reqs :
        pc[r] = "ended"
            => /\ TerminalFrames(r) = {Len(frames[r])}
               /\ \A i \in FramesOfType(r, "done") :
                      LET mid == frames[r][i].message_id
                          written == {x \in message_rows : x.id[1] = r /\ x.role = "assistant"}
                      IN  IF mid = <<>> THEN written = {}
                          ELSE \E x \in written : x.id = mid[1]


\* C39: a sandbox tool call made by the run of thread T uses the session key
\* of T, whatever the runs of other threads do in between
C39_ToolUsesOwnThread ==
    \A r \in Reqs :
        (pc[r] = "tool_end" /\ run[r].tool = "code_sandbox")
            => run[r].session_key = payload[r].thread_id

=============================================================================
